---- MODULE Spec2Model ----
(***************************************************************************)
(* Model of the price aggregation route (app/api/prices/route.ts): the     *)
(* process-wide cache and rate-limit maps, and the GET handler as a        *)
(* coroutine that is resumed at every network suspension point.            *)
(*                                                                         *)
(* Strings are sequences of characters so that trim(), toLowerCase() and   *)
(* the zip regular expression are computed, not assumed.  Time is counted  *)
(* in minutes: the rate window (60 s) and the GoodRx TTL (60 s) are 1, the *)
(* NADAC TTL (15 min) is 15 and the RxNorm TTL (24 h) is 1440.             *)
(***************************************************************************)
EXTENDS Integers, Sequences, FiniteSets, Bags, TLC

VARIABLES
  now,          \* Date.now(), in minutes
  env,          \* process.env: RATE_MAX, GOODRX_RATE_MAX, GOODRX_API_KEY
  rl,           \* g.__medi_rl: key -> [count, resetAt]
  cache,        \* g.__medi_cache: bucket name -> url -> [data, expires]
  reqs,         \* bag of the handler invocations suspended on network I/O
  nreq,         \* number of requests received so far
  step,         \* what the latest step did: calls, lookups, fetches, response
  gate,         \* history: per client key, the latest global gate call
  lastStored,   \* history: per (bucket, url), the latest successful upstream result
  pipe,         \* the row pipeline of one request: its inputs, its stage, its rows
  door,         \* the access gate: BETA_PASS, the browser's mf_pass cookie, the latest visit
  used          \* history: per rate record, what its current window has admitted

vars == <<now, env, rl, cache, reqs, nreq, step, gate, lastStored, pipe, door, used>>

(***************************************************************************)
(* Bounds of the model.                                                    *)
(***************************************************************************)
MaxTime == 1
GateReqs == 3
FetchReqs == 2
MaxRateCfg == 2

(***************************************************************************)
(* Configuration constants (time in minutes).                              *)
(***************************************************************************)
RATE_WINDOW_MS == 1
CACHE_TTL_RXNORM_MS == 1440
CACHE_TTL_NADAC_MS == 15
CACHE_TTL_GOODRX_MS == 1
DefaultQty == 30
DefaultLimit == 25
MaxQty == 5000
MaxLimit == 50
NadacPageMax == 50
GoodRxPageMax == 10

(***************************************************************************)
(* Strings.                                                                *)
(***************************************************************************)
Absent == <<"<absent>">>          \* searchParams.get / headers.get returned null
Digits == {"0", "1", "2", "3", "4", "5", "6", "7", "8", "9"}
White == {" "}

OrEmpty(v) == IF v = Absent THEN <<>> ELSE v      \* (v || "")

RECURSIVE TrimLeft(_)
TrimLeft(s) == IF s # <<>> /\ Head(s) \in White THEN TrimLeft(Tail(s)) ELSE s

RECURSIVE TrimRight(_)
TrimRight(s) ==
  IF s # <<>> /\ s[Len(s)] \in White THEN TrimRight(SubSeq(s, 1, Len(s) - 1)) ELSE s

\* a trim that removes nothing
TrimNone(s) == s

Trim(s) == TrimRight(TrimLeft(s))

LowerChar(ch) ==
  CASE ch = "A" -> "a"
    [] ch = "C" -> "c"
    [] OTHER -> ch

ToLower(s) == [i \in 1..Len(s) |-> LowerChar(s[i])]

\* fwd.split(",")[0]
RECURSIVE FirstPart(_)
FirstPart(s) ==
  IF s = <<>> \/ Head(s) = "," THEN <<>> ELSE <<Head(s)>> \o FirstPart(Tail(s))

Min(a, b) == IF a < b THEN a ELSE b
Max(a, b) == IF a > b THEN a ELSE b

Has(f, k) == k \in DOMAIN f
Put(f, k, v) == [x \in DOMAIN f \cup {k} |-> IF x = k THEN v ELSE f[x]]
Contains(s, v) == \E i \in 1..Len(s) : s[i] = v

(***************************************************************************)
(* Utilities (route.ts lines 69-87).                                       *)
(***************************************************************************)
\* a zip test that only counts the characters
LenFiveOnly(v) == v # <<>> /\ Len(v) = 5

isFiveDigitZip(v) == v # <<>> /\ Len(v) = 5 /\ \A i \in 1..Len(v) : v[i] \in Digits

\* x-forwarded-for, then x-real-ip, then "anon"
getClientKey(fwdHeader, realIp) ==
  LET first == FirstPart(OrEmpty(fwdHeader))
      ip == IF first # <<>> THEN first
            ELSE IF OrEmpty(realIp) # <<>> THEN realIp ELSE <<"anon">>
  IN <<"ip:">> \o Trim(ip)

goodrxKey(clientKey) == clientKey \o <<"|goodrx">>

\* the spec's wording: increment, then compare
rateLimitIncrementFirst(m, key, max, windowMs) ==
  IF ~Has(m, key) \/ now >= m[key].resetAt
  THEN [rl |-> Put(m, key, [count |-> 1, resetAt |-> now + windowMs]),
        res |-> [allowed |-> TRUE, remaining |-> max - 1, resetAt |-> now + windowMs]]
  ELSE LET n == m[key].count + 1
       IN IF n >= max
          THEN [rl |-> Put(m, key, [count |-> n, resetAt |-> m[key].resetAt]),
                res |-> [allowed |-> FALSE, remaining |-> 0, resetAt |-> m[key].resetAt]]
          ELSE [rl |-> Put(m, key, [count |-> n, resetAt |-> m[key].resetAt]),
                res |-> [allowed |-> TRUE, remaining |-> max - n,
                         resetAt |-> m[key].resetAt]]

\* a limiter that allows inside a window without writing the count back
rateLimitLosesIncrement(m, key, max, windowMs) ==
  IF ~Has(m, key) \/ now >= m[key].resetAt
  THEN [rl |-> Put(m, key, [count |-> 1, resetAt |-> now + windowMs]),
        res |-> [allowed |-> TRUE, remaining |-> max - 1, resetAt |-> now + windowMs]]
  ELSE IF m[key].count >= max
  THEN [rl |-> m,
        res |-> [allowed |-> FALSE, remaining |-> 0, resetAt |-> m[key].resetAt]]
  ELSE [rl |-> m,
        res |-> [allowed |-> TRUE, remaining |-> max - (m[key].count + 1),
                 resetAt |-> m[key].resetAt]]

\* a limiter whose window is still open at the instant resetAt
rateLimitResetsLate(m, key, max, windowMs) ==
  IF ~Has(m, key) \/ now > m[key].resetAt
  THEN [rl |-> Put(m, key, [count |-> 1, resetAt |-> now + windowMs]),
        res |-> [allowed |-> TRUE, remaining |-> max - 1, resetAt |-> now + windowMs]]
  ELSE IF m[key].count >= max
  THEN [rl |-> m,
        res |-> [allowed |-> FALSE, remaining |-> 0, resetAt |-> m[key].resetAt]]
  ELSE [rl |-> Put(m, key, [count |-> m[key].count + 1, resetAt |-> m[key].resetAt]),
        res |-> [allowed |-> TRUE, remaining |-> max - (m[key].count + 1),
                 resetAt |-> m[key].resetAt]]

rateLimit(m, key, max, windowMs) ==
  IF ~Has(m, key) \/ now >= m[key].resetAt
  THEN [rl |-> Put(m, key, [count |-> 1, resetAt |-> now + windowMs]),
        res |-> [allowed |-> TRUE, remaining |-> max - 1, resetAt |-> now + windowMs]]
  ELSE IF m[key].count >= max
  THEN [rl |-> m,
        res |-> [allowed |-> FALSE, remaining |-> 0, resetAt |-> m[key].resetAt]]
  ELSE [rl |-> Put(m, key, [count |-> m[key].count + 1, resetAt |-> m[key].resetAt]),
        res |-> [allowed |-> TRUE, remaining |-> max - (m[key].count + 1),
                 resetAt |-> m[key].resetAt]]

(***************************************************************************)
(* JSON bodies an upstream can send, reduced to what the route reads.      *)
(***************************************************************************)
NullBody == [kind |-> "null", n |-> 0, name |-> <<>>]
Body(kind, n, name) == [kind |-> kind, n |-> n, name |-> name]

\* what a 2xx body can parse to, per call site
Bodies(stage) ==
  CASE stage \in {"find1", "find9"} -> {Body("noids", 0, <<>>), Body("ids", 7, <<>>)}
    [] stage = "ndcs" -> {Body("ndcs", 1, <<>>)}
    [] stage = "name" -> {Body("noname", 0, <<>>), Body("name", 0, <<"C">>)}
    [] OTHER -> {Body("rows", 0, <<>>), Body("rows", 1, <<>>)}

(***************************************************************************)
(* URLs: one record per distinct URL string the route builds.              *)
(***************************************************************************)
Url(ep, name, q, zip, lim) == [ep |-> ep, name |-> name, q |-> q, zip |-> zip, lim |-> lim]
RXNAV_FIND(name, search) == Url("rxnav/REST/rxcui.json", name, search, <<>>, 0)
RXNAV_NDCS(rxcui) == Url("rxnav/REST/rxcui/ndcs.json", <<>>, rxcui, <<>>, 0)
RXNAV_NAME(rxcui) == Url("rxnav/REST/rxcui/id.json", <<>>, rxcui, <<>>, 0)
NadacUrl(drugQuery, limit) ==
  Url("healthdata.gov/resource/3tha-57c6.json", drugQuery, 0, <<>>,
      Min(Max(limit, 1), NadacPageMax))
GoodRxUrl(drug, qty, zip, limit) ==
  Url("api.goodrx.com/v2/price", drug, qty, zip, Min(Max(limit, 1), GoodRxPageMax))

(***************************************************************************)
(* Cache (route.ts lines 26-35 and 94-105).                                *)
(***************************************************************************)
bucket(cch, name) == IF Has(cch, name) THEN cch ELSE Put(cch, name, <<>>)

\* a lookup that drops the entry it finds expired
cacheLookupPurging(cch, url, bucketName) ==
  LET b == bucket(cch, bucketName)
  IN IF Has(b[bucketName], url) /\ b[bucketName][url].expires > now
     THEN [cache |-> b, hit |-> <<b[bucketName][url].data>>]
     ELSE [cache |-> [b EXCEPT ![bucketName] =
                        [u \in DOMAIN b[bucketName] \ {url} |-> b[bucketName][u]]],
           hit |-> <<>>]

\* lines 96-98: const b = bucket(name); const hit = b.get(url); fresh?
cacheLookup(cch, url, bucketName) ==
  LET b == bucket(cch, bucketName)
  IN IF Has(b[bucketName], url) /\ b[bucketName][url].expires > now
     THEN [cache |-> b, hit |-> <<b[bucketName][url].data>>]
     ELSE [cache |-> b, hit |-> <<>>]

\* The clock never passes MaxTime, so every expiry after MaxTime compares the
\* same way to every Date.now() of the model; such expiries are stored as Never.
Never == MaxTime + 1
Expiry(t) == Min(t, Never)

\* line 103: bucket(name).set(url, {data, expires: Date.now() + ttlMs})
cacheStore(cch, url, bucketName, data, ttlMs) ==
  LET b == bucket(cch, bucketName)
  IN [b EXCEPT ![bucketName] =
        Put(@, url, [data |-> data, expires |-> Expiry(now + ttlMs)])]

(***************************************************************************)
(* What one step did.  Every action starts from EmptyStep.                 *)
(***************************************************************************)
EmptyStep ==
  [get |-> <<>>, rlCalls |-> <<>>, lookups |-> <<>>, fetch |-> <<>>,
   put |-> <<>>, settled |-> <<>>, resp |-> <<>>]

\* fetchJSONCached up to its first suspension (lines 95-100); with ttlMs = 0
\* this is the uncached fetchWithTimeout of lines 198-202.
CallCached(c, url, ttlMs, bucketName, stage) ==
  LET L == IF ttlMs > 0 THEN cacheLookup(c.cache, url, bucketName)
           ELSE [cache |-> c.cache, hit |-> <<>>]
      look == [b |-> bucketName, u |-> url, hit |-> L.hit # <<>>,
               data |-> IF L.hit # <<>> THEN L.hit[1] ELSE NullBody]
      c1 == [c EXCEPT !.cache = L.cache,
                      !.step.lookups = IF ttlMs > 0 THEN Append(@, look) ELSE @]
  IN IF L.hit # <<>>
     THEN [c |-> c1, done |-> TRUE, data |-> L.hit[1]]
     ELSE [c |-> [c1 EXCEPT
                    !.step.fetch = Append(@, [b |-> bucketName, u |-> url]),
                    !.r.stage = stage, !.r.phase = "fetch",
                    !.r.await = <<[b |-> bucketName, u |-> url, ttl |-> ttlMs]>>,
                    !.r.fetches = @ + 1],
           done |-> FALSE, data |-> NullBody]

(***************************************************************************)
(* The handler's locals, and the response it sends.                        *)
(***************************************************************************)
NewRequest(clientKey, drug, zip, includeGoodRx, includeNadac) ==
  [key |-> clientKey, drug |-> drug, query |-> drug, zip |-> zip, qty |-> DefaultQty,
   limit |-> DefaultLimit, includeGoodRx |-> includeGoodRx,
   includeNadac |-> includeNadac, stage |-> "start", phase |-> "run",
   await |-> <<>>, rxcui |-> 0, search |-> 0, ndcs |-> 0, rxnorm |-> <<>>,
   attempted |-> <<>>, datasets |-> <<>>, caveats |-> <<>>,
   grxRows |-> 0, nadacRows |-> 0, fetches |-> 0,
   includeFlorida |-> FALSE, nadacBaseline |-> <<>>]

NoRequest == NewRequest(<<>>, <<>>, <<>>, FALSE, FALSE)

\* status: 400 and 429 are NextResponse.json(..., {status}); 200 is the success
\* payload; 500 is the runtime's answer to an exception the handler let escape.
\* nadacBaseline is transparency.nadacBaseline, <<>> where the payload has none.
\* query (the name before resolution), zip, the provider toggles, attempted, noted
\* (the caveats), resolution, grxRows, nadacRows and fetches are the handler's
\* locals at the moment it ended, whatever the client was sent.
Response(status, r, remaining, resetAt) ==
  [status |-> status, ok |-> status = 200, remaining |-> remaining, resetAt |-> resetAt,
   datasets |-> IF status = 200 THEN r.datasets ELSE <<>>,
   caveats |-> IF status = 200 THEN r.caveats ELSE <<>>,
   query |-> r.query, zip |-> r.zip, includeNadac |-> r.includeNadac,
   includeGoodRx |-> r.includeGoodRx,
   attempted |-> r.attempted, noted |-> r.caveats, resolution |-> r.rxnorm,
   grxRows |-> r.grxRows, nadacRows |-> r.nadacRows, fetches |-> r.fetches,
   includeFlorida |-> r.includeFlorida,
   nadacBaseline |-> IF status = 200 THEN r.nadacBaseline ELSE <<>>]

Finish(c, status, remaining, resetAt) ==
  [c EXCEPT !.r.stage = "done", !.r.phase = "done", !.r.await = <<>>,
            !.step.resp = <<Response(status, c.r, remaining, resetAt)>>]

(***************************************************************************)
(* GET, from its last stage back to its first.                             *)
(***************************************************************************)
\* lines 489-498: nadacRows is declared inside the try block of lines 477-486,
\* so the reference at line 490 throws a ReferenceError that nothing catches:
\* the assignment of lines 495-498 and the Florida block of lines 501-517 are
\* never reached.
Baseline(c) == Finish(c, 500, 0, 0)

\* lines 159-174 (rows of fetchNadac) and 479-485
NadacDone(c, data) ==
  LET rows == IF data.kind = "rows" THEN data.n ELSE 0
  IN Baseline(
       IF rows > 0
       THEN [c EXCEPT !.r.nadacRows = rows,
                      !.r.datasets = Append(@, "NADAC (HealthData.gov)"),
                      !.r.caveats = Append(@, "NADAC is acquisition cost, not retail price.")]
       ELSE [c EXCEPT !.r.caveats = Append(@, "No NADAC rows matched this query.")])

\* line 486: catch {}
NadacCatch(c) == Baseline(c)

\* lines 474-478 and 148-158
StartNadac(c) ==
  IF ~c.r.includeNadac THEN Baseline(c)
  ELSE LET c1 == [c EXCEPT !.r.attempted = Append(@, "NADAC")]
           R == CallCached(c1, NadacUrl(c.r.drug, c.r.limit), CACHE_TTL_NADAC_MS,
                           "nadac", "nadac")
       IN IF R.done THEN NadacDone(R.c, R.data) ELSE R.c

\* lines 204-229 (rows of fetchGoodRxPrices) and 463-467
GoodRxDone(c, data) ==
  LET rows == IF data.kind = "rows" THEN data.n ELSE 0
  IN StartNadac(
       IF rows > 0
       THEN [c EXCEPT !.r.grxRows = rows,
                      !.r.datasets = Append(@, "GoodRx"),
                      !.r.caveats = Append(@,
                         "GoodRx prices change frequently; do not store long-term.")]
       ELSE c)

\* line 468: catch {}
GoodRxCatch(c) == StartNadac(c)

\* What the current window of the rate record key has admitted: entries into
\* the provider pipeline (by the gate of the client whose key it is), calls of
\* the GoodRx provider (by the throttle of the client whose GoodRx key it is)
\* and the upstream requests those calls sent.  m is the map before the call.
NoneUsed == [gate |-> 0, goodrx |-> 0, upstream |-> 0]
Admit(u, m, key, limiter, allowed) ==
  LET fresh == ~Has(m, key) \/ now >= m[key].resetAt
      old == IF fresh \/ ~Has(u, key) THEN NoneUsed ELSE u[key]
  IN Put(u, key, IF allowed THEN [old EXCEPT ![limiter] = @ + 1] ELSE old)

\* a GoodRx block that calls the provider whatever the throttle answers
StartGoodRxUnthrottled(c) ==
  IF ~c.r.includeGoodRx THEN StartNadac(c)
  ELSE LET key == goodrxKey(c.r.key)
           G == rateLimit(c.rl, key, env.GOODRX_RATE_MAX, RATE_WINDOW_MS)
           c1 == [c EXCEPT !.rl = G.rl,
                           !.used = Admit(c.used, c.rl, key, "goodrx", G.res.allowed),
                           !.step.rlCalls = Append(@,
                              [key |-> key, max |-> env.GOODRX_RATE_MAX,
                               pre |-> IF Has(c.rl, key) THEN <<c.rl[key]>> ELSE <<>>,
                               post |-> G.rl[key], res |-> G.res])]
       IN IF FALSE
          THEN StartNadac([c1 EXCEPT !.r.caveats = Append(@,
                 "GoodRx calls throttled for this client to protect upstream limits.")])
          ELSE LET c2 == [c1 EXCEPT !.r.attempted = Append(@, "GoodRx")]
                   R == CallCached(c2, GoodRxUrl(c.r.drug, c.r.qty, c.r.zip, c.r.limit),
                                   CACHE_TTL_GOODRX_MS, "goodrx", "goodrx")
               IN IF ~env.GOODRX_API_KEY THEN GoodRxDone(c2, NullBody)
                  ELSE IF R.done THEN GoodRxDone(R.c, R.data)
                  ELSE [R.c EXCEPT !.used[key].upstream = @ + 1]

\* lines 455-462, 182-202 and 469-471
StartGoodRx(c) ==
  IF ~c.r.includeGoodRx THEN StartNadac(c)
  ELSE LET key == goodrxKey(c.r.key)
           G == rateLimit(c.rl, key, env.GOODRX_RATE_MAX, RATE_WINDOW_MS)
           c1 == [c EXCEPT !.rl = G.rl,
                           !.used = Admit(c.used, c.rl, key, "goodrx", G.res.allowed),
                           !.step.rlCalls = Append(@,
                              [key |-> key, max |-> env.GOODRX_RATE_MAX,
                               pre |-> IF Has(c.rl, key) THEN <<c.rl[key]>> ELSE <<>>,
                               post |-> G.rl[key], res |-> G.res])]
       IN IF ~G.res.allowed
          THEN StartNadac([c1 EXCEPT !.r.caveats = Append(@,
                 "GoodRx calls throttled for this client to protect upstream limits.")])
          ELSE LET c2 == [c1 EXCEPT !.r.attempted = Append(@, "GoodRx")]
                   R == CallCached(c2, GoodRxUrl(c.r.drug, c.r.qty, c.r.zip, c.r.limit),
                                   CACHE_TTL_GOODRX_MS, "goodrx", "goodrx")
               IN IF ~env.GOODRX_API_KEY THEN GoodRxDone(c2, NullBody)
                  ELSE IF R.done THEN GoodRxDone(R.c, R.data)
                  ELSE [R.c EXCEPT !.used[key].upstream = @ + 1]

\* line 434 and lines 438-453: adopt the canonical name, open transparency
AfterResolve(c) ==
  StartGoodRx(
    IF c.r.rxnorm # <<>> /\ c.r.rxnorm[1].name # <<>>
    THEN [c EXCEPT !.r.drug = ToLower(c.r.rxnorm[1].name)]
    ELSE c)

\* line 435: catch {} leaves rxnorm null
ResolveCatch(c) == AfterResolve([c EXCEPT !.r.rxnorm = <<>>])

\* lines 268-271
AfterName(c, data) ==
  AfterResolve([c EXCEPT !.r.rxnorm =
     <<[rxcui |-> c.r.rxcui, name |-> IF data.kind = "name" THEN data.name ELSE <<>>,
        ndcs |-> c.r.ndcs, search |-> c.r.search]>>])

\* lines 263-267
AfterNdcs(c, data) ==
  LET c1 == [c EXCEPT !.r.ndcs = IF data.kind = "ndcs" THEN data.n ELSE 0]
      R == CallCached(c1, RXNAV_NAME(c.r.rxcui), CACHE_TTL_RXNORM_MS, "rxnorm_name", "name")
  IN IF R.done THEN AfterName(R.c, R.data) ELSE R.c

\* lines 254-262 and 271
AfterFind(c, data, search) ==
  IF data.kind = "ids"
  THEN LET c1 == [c EXCEPT !.r.rxcui = data.n, !.r.search = search]
           R == CallCached(c1, RXNAV_NDCS(data.n), CACHE_TTL_RXNORM_MS, "rxnorm_ndcs", "ndcs")
       IN IF R.done THEN AfterNdcs(R.c, R.data) ELSE R.c
  ELSE AfterResolve([c EXCEPT !.r.rxnorm =
          <<[rxcui |-> 0, name |-> <<>>, ndcs |-> 0, search |-> 0]>>])

\* a resolver that never retries with the approximate search
AfterFind1Exact(c, data) == AfterFind(c, data, 1)

\* lines 247-253
AfterFind1(c, data) ==
  IF data.kind = "ids" THEN AfterFind(c, data, 1)
  ELSE LET R == CallCached(c, RXNAV_FIND(c.r.drug, 9), CACHE_TTL_RXNORM_MS,
                           "rxnorm_find", "find9")
       IN IF R.done THEN AfterFind(R.c, R.data, 9) ELSE R.c

\* lines 431-433 and 245-246
StartResolve(c) ==
  LET R == CallCached(c, RXNAV_FIND(c.r.drug, 1), CACHE_TTL_RXNORM_MS,
                      "rxnorm_find", "find1")
  IN IF R.done THEN AfterFind1(R.c, R.data) ELSE R.c

\* a call of fetchJSONCached returned data (null after a non-2xx status)
Continue(c, stage, data) ==
  CASE stage = "find1" -> AfterFind1(c, data)
    [] stage = "find9" -> AfterFind(c, data, 9)
    [] stage = "ndcs" -> AfterNdcs(c, data)
    [] stage = "name" -> AfterName(c, data)
    [] stage = "goodrx" -> GoodRxDone(c, data)
    [] OTHER -> NadacDone(c, data)

\* a call of fetchJSONCached threw: the enclosing try of GET catches it
Throw(c, stage) ==
  CASE stage \in {"find1", "find9", "ndcs", "name"} -> ResolveCatch(c)
    [] stage = "goodrx" -> GoodRxCatch(c)
    [] OTHER -> NadacCatch(c)

\* What the global gate told each client key: the request is number k of the
\* window that the key's first request opened at time opened.
GateNote(g, key, res) ==
  LET fresh == ~Has(g, key) \/ now >= g[key].opened + RATE_WINDOW_MS
  IN Put(g, key, [k |-> IF fresh THEN 1 ELSE g[key].k + 1,
                  opened |-> IF fresh THEN now ELSE g[key].opened,
                  allowed |-> res.allowed, remaining |-> res.remaining,
                  resetAt |-> res.resetAt,
                  prev |-> IF fresh THEN <<>> ELSE <<g[key].resetAt>>])

\* a denial that consults the GoodRx throttle on its way out
RateLimitedAfterThrottle(c, res) ==
  Finish([c EXCEPT !.rl = rateLimit(c.rl, goodrxKey(c.r.key), env.GOODRX_RATE_MAX,
                                    RATE_WINDOW_MS).rl],
         429, 0, res.resetAt)

\* lines 412-426
RateLimited(c, res) == Finish(c, 429, 0, res.resetAt)

\* a rejection that is counted against the client's quota
InputErrorCounted(c) ==
  Finish([c EXCEPT !.rl = rateLimit(@, getClientKey(Absent, Absent), env.RATE_MAX,
                                    RATE_WINDOW_MS).rl],
         400, 0, 0)

\* lines 396-407
InputError(c) == Finish(c, 400, 0, 0)

\* lines 368-436: parse, validate, gate, then run to the first suspension
Handle(c, fwd, drugP, zipP, pRx, pNadac, pGood, pFlorida) ==
  LET rawDrug == Trim(OrEmpty(drugP))
      zip == Trim(OrEmpty(zipP))
      includeNadac == (IF pNadac = "" THEN "true" ELSE pNadac) # "false"
      includeRxNorm == (IF pRx = "" THEN "true" ELSE pRx) # "false"
      includeGoodRx == pGood = "true" \/ (pGood # "false" /\ env.GOODRX_API_KEY)
      includeFlorida == (IF pFlorida = "" THEN "false" ELSE pFlorida) = "true"
      ev(outcome) == <<[drug |-> drugP, zip |-> zipP, outcome |-> outcome]>>
  IN IF rawDrug = <<>>
     THEN InputError([c EXCEPT !.step.get = ev("InputError")])
     ELSE IF zip # <<>> /\ ~isFiveDigitZip(zip)
     THEN InputError([c EXCEPT !.step.get = ev("InputError")])
     ELSE LET clientKey == getClientKey(fwd, Absent)
              G == rateLimit(c.rl, clientKey, env.RATE_MAX, RATE_WINDOW_MS)
              c1 == [c EXCEPT
                       !.r = [NewRequest(clientKey, ToLower(rawDrug), zip,
                                         includeGoodRx, includeNadac)
                                EXCEPT !.includeFlorida = includeFlorida],
                       !.rl = G.rl,
                       !.gate = GateNote(c.gate, clientKey, G.res),
                       !.used = Admit(c.used, c.rl, clientKey, "gate", G.res.allowed),
                       !.step.get = ev(IF G.res.allowed THEN "pass" ELSE "RateLimited"),
                       !.step.rlCalls = Append(@,
                          [key |-> clientKey, max |-> env.RATE_MAX,
                           pre |-> IF Has(c.rl, clientKey) THEN <<c.rl[clientKey]>> ELSE <<>>,
                           post |-> G.rl[clientKey], res |-> G.res])]
          IN IF ~G.res.allowed THEN RateLimited(c1, G.res)
             ELSE IF includeRxNorm THEN StartResolve(c1)
             ELSE AfterResolve(c1)

(***************************************************************************)
(* Numbers.  A price is a whole number of 1e-5 dollars, so that the fifth  *)
(* decimal, which toFixed(4) rounds away, exists in the model; a quantity  *)
(* or a row limit is a whole number of halves, so that 2.5 exists.  NaN is *)
(* one value outside the range of every number the model computes.  The    *)
(* arithmetic is exact; the prices and quantities of the model are chosen  *)
(* away from rounding ties, where binary floating point could differ.      *)
(***************************************************************************)
NaN == -(2^30)
Cents(c) == c * 1000               \* c hundredths of a dollar, as a price
Count(n) == 2 * n                  \* the integer n, as a quantity

MathMax(a, b) == IF a = NaN \/ b = NaN THEN NaN ELSE Max(a, b)
MathMin(a, b) == IF a = NaN \/ b = NaN THEN NaN ELSE Min(a, b)

\* line 70: Number.isFinite(x) ? x : 0
toNumberSafe(n) == IF n = NaN THEN 0 ELSE n

\* v || 0
OrZero(v) == IF v = NaN THEN 0 ELSE v

\* a * n / d to the nearest integer, halves away from zero (n >= 0, d > 0)
RoundQuot(a, n, d) ==
  LET A == IF a < 0 THEN -a ELSE a
      hi == (A \div d) * n
      lo == (A % d) * n
      m == hi + (lo \div d) + (IF 2 * (lo % d) >= d THEN 1 ELSE 0)
  IN IF a < 0 THEN -m ELSE m

\* Number((a * n / d).toFixed(4)) for a price a
Fixed4(a, n, d) == IF a = NaN \/ n = NaN THEN NaN ELSE 10 * RoundQuot(a, n, 10 * d)

\* Number((price * qty).toFixed(4)) for a quantity in halves
TimesQty(price, qty) == Fixed4(price, qty, 2)

DigitValue(ch) ==
  CASE ch = "0" -> 0 [] ch = "1" -> 1 [] ch = "2" -> 2 [] ch = "3" -> 3 [] ch = "4" -> 4
    [] ch = "5" -> 5 [] ch = "6" -> 6 [] ch = "7" -> 7 [] ch = "8" -> 8 [] ch = "9" -> 9

RECURSIVE DigitsValue(_)
DigitsValue(s) ==
  IF s = <<>> THEN 0 ELSE 10 * DigitsValue(SubSeq(s, 1, Len(s) - 1)) + DigitValue(s[Len(s)])

AllDigits(s) == s # <<>> /\ \A i \in 1..Len(s) : s[i] \in Digits

\* Number(s) of a string, as a count of halves: blank is 0, an optionally signed
\* decimal integer with an optional ".5" is its value, anything else is NaN
\* (the parameter values of the model carry no other fraction and no exponent).
ToNumber(s) ==
  LET t == Trim(s)
      neg == t # <<>> /\ Head(t) = "-"
      body == IF neg THEN Tail(t) ELSE t
      half == Len(body) >= 3 /\ body[Len(body) - 1] = "." /\ body[Len(body)] = "5"
      int == IF half THEN SubSeq(body, 1, Len(body) - 2) ELSE body
      mag == Count(DigitsValue(int)) + (IF half THEN 1 ELSE 0)
  IN IF t = <<>> THEN 0
     ELSE IF AllDigits(int) THEN (IF neg THEN -mag ELSE mag)
     ELSE NaN

\* lines 374-375: Math.min(Math.max(Number(searchParams.get(..) || def), lo), hi)
Clamp(p, def, lo, hi) ==
  MathMin(MathMax(IF OrEmpty(p) = <<>> THEN Count(def) ELSE ToNumber(p), Count(lo)),
          Count(hi))

\* Array.prototype.slice(0, n): n is truncated to an integer, NaN is 0
Slice(s, n) ==
  LET k == IF n = NaN THEN 0 ELSE n \div 2
  IN SubSeq(s, 1, Min(Max(k, 0), Len(s)))

Includes(s, t) == \E i \in 1..(Len(s) - Len(t) + 1) : SubSeq(s, i, i + Len(t) - 1) = t

(***************************************************************************)
(* Rows.  A pharmacy name is a sequence of words; no name, no chain, no    *)
(* form and no strength are the empty sequence.                            *)
(***************************************************************************)
KnownChains == <<"walmart", "cvs", "walgreens", "costco", "safeway", "kroger">>

LowerWord(w) ==
  CASE w = "Walmart" -> "walmart"
    [] w = "CVS" -> "cvs"
    [] w = "Costco" -> "costco"
    [] w = "Pharmacy" -> "pharmacy"
    [] w = "Unknown" -> "unknown"
    [] w = "(Mock)" -> "(mock)"
    [] OTHER -> w

\* lines 106-116
deriveChain(name) ==
  IF name = <<>> THEN <<>>
  ELSE LET n == [i \in 1..Len(name) |-> LowerWord(name[i])]
           hits == {k \in 1..Len(KnownChains) : Contains(n, KnownChains[k])}
       IN IF hits # {} THEN <<KnownChains[CHOOSE k \in hits : \A j \in hits : k <= j]>>
          ELSE n

Atorvastatin == <<"a", "t", "o", "r", "v", "a", "s", "t", "a", "t", "i", "n">>
Metformin == <<"m", "e", "t", "f", "o", "r", "m", "i", "n">>
Tablet == <<"t", "a", "b", "l", "e", "t">>
Zip85018 == <<"8", "5", "0", "1", "8">>
Zip85281 == <<"8", "5", "2", "8", "1">>

\* lines 121-140
MOCK ==
  << [drug |-> Atorvastatin, form |-> Tablet, strength |-> <<"2", "0", " ", "m", "g">>,
      qty |-> 30, totalPrice |-> Cents(999), pharmacy |-> <<"Walmart", "(Mock)">>,
      zipCoverage |-> {<<"8", "5", "0", "0", "1">>, <<"8", "5", "0", "0", "2">>, Zip85281,
                       <<"9", "9", "9", "9", "9">>}],
     [drug |-> Atorvastatin, form |-> Tablet, strength |-> <<"1", "0", " ", "m", "g">>,
      qty |-> 30, totalPrice |-> Cents(1149), pharmacy |-> <<"CVS", "(Mock)">>,
      zipCoverage |-> {<<"8", "5", "0", "0", "1">>, Zip85018, Zip85281}],
     [drug |-> Metformin, form |-> Tablet, strength |-> <<"5", "0", "0", " ", "m", "g">>,
      qty |-> 60, totalPrice |-> Cents(650), pharmacy |-> <<"Costco", "(Mock)">>,
      zipCoverage |-> {<<"8", "5", "0", "0", "1">>, Zip85281}] >>

NoName == <<>>

\* a fixture row that keeps the pack size of the fixture
MockRowKeepsPack(r, qty, zip) ==
  [dataset |-> "Mock", qty |-> Count(r.qty),
   unitPrice |-> Fixed4(r.totalPrice, 1, r.qty),
   totalPrice |-> Fixed4(r.totalPrice, 1, 1),
   pharmacy |-> r.pharmacy, chain |-> deriveChain(r.pharmacy),
   form |-> r.form, strength |-> r.strength]

\* a fixture row whose total is the rounded unit price times the quantity
MockRowFromRoundedUnit(r, qty, zip) ==
  [dataset |-> "Mock", qty |-> qty,
   unitPrice |-> Fixed4(r.totalPrice, 1, r.qty),
   totalPrice |-> TimesQty(Fixed4(r.totalPrice, 1, r.qty), qty),
   pharmacy |-> r.pharmacy, chain |-> deriveChain(r.pharmacy),
   form |-> r.form, strength |-> r.strength]

\* lines 525-532: the map over the fixture rows that passed the filters
MockRow(r, qty, zip) ==
  [dataset |-> "Mock", qty |-> qty,
   unitPrice |-> Fixed4(r.totalPrice, 1, r.qty),
   totalPrice |-> Fixed4(r.totalPrice, qty, 2 * r.qty),
   pharmacy |-> r.pharmacy, chain |-> deriveChain(r.pharmacy),
   form |-> r.form, strength |-> r.strength]

\* lines 522-524: the fixture rows for this drug and zip
MockFiltered(normalizedDrug, zip) ==
  SelectSeq(MOCK, LAMBDA r : /\ Includes(ToLower(r.drug), normalizedDrug)
                             /\ (zip # <<>> => zip \in r.zipCoverage))

MockRows(normalizedDrug, zip, qty) ==
  LET m == MockFiltered(normalizedDrug, zip)
  IN [i \in 1..Len(m) |-> MockRow(m[i], qty, zip)]

\* lines 160-172: one row of fetchNadac; perUnit is Number(r.nadac_per_unit)
NadacRow(perUnit, qty) ==
  LET unit == toNumberSafe(perUnit)
  IN [dataset |-> "NADAC (HealthData.gov 2024)", qty |-> qty, unitPrice |-> unit,
      totalPrice |-> TimesQty(unit, qty), pharmacy |-> NoName, chain |-> <<>>,
      form |-> <<>>, strength |-> <<>>]

NadacRows(data, qty) == [i \in 1..Len(data) |-> NadacRow(data[i], qty)]

\* lines 210-227: one row of fetchGoodRxPrices; p.price is Number() of the first
\* price field present, p.total is <<>> without total_price, else <<Number(it)>>
GoodRxRow(p, qty) ==
  LET unitPrice == toNumberSafe(p.price)
      totalPrice == IF p.total # <<>> THEN Fixed4(toNumberSafe(p.total[1]), 1, 1)
                    ELSE toNumberSafe(TimesQty(unitPrice, qty))
  IN [dataset |-> "GoodRx", qty |-> qty, unitPrice |-> Fixed4(unitPrice, 1, 1),
      totalPrice |-> totalPrice, pharmacy |-> p.pharmacy,
      chain |-> deriveChain(p.pharmacy), form |-> <<>>, strength |-> <<>>]

GoodRxRows(items, qty) == [i \in 1..Len(items) |-> GoodRxRow(items[i], qty)]

\* lines 298-322: one row of parseFloridaWorkbook; f.price is Number(priceStr || 0)
\* and f.quantity is Number(pick(r, ["Quantity", "Qty"], "30"))
FloridaRow(f, qty) ==
  LET quantity == IF f.quantity = NaN \/ f.quantity = 0 THEN 1 ELSE f.quantity
      price == OrZero(f.price)
  IN [dataset |-> "Florida MyFloridaRX", qty |-> qty,
      unitPrice |-> Fixed4(price, 1, quantity),
      totalPrice |-> Fixed4(price, qty, 2 * quantity),
      pharmacy |-> f.pharmacy, chain |-> deriveChain(f.pharmacy),
      form |-> <<>>, strength |-> <<>>]

\* line 298: json.slice(0, limit).map(...)
FloridaRows(sheet, qty, limit) ==
  LET s == Slice(sheet, limit)
  IN [i \in 1..Len(s) |-> FloridaRow(s[i], qty)]

\* lines 327-363.  fl.template and fl.devFile: FL_TEMPLATE and FL_TEST_REL are
\* set; fl.live: how the export answered ("ok", "status", "reject") and its
\* sheet; fl.dev and fl.bundled: whether the file is there, and its sheet.
\* threw: the promise rejected (fetch() or fs.readFile outside a try).
FloridaOutcome(source, threw, rows) == [source |-> source, threw |-> threw, rows |-> rows]

fetchFloridaMyRxExcel(fl, qty, limit) ==
  IF fl.template
  THEN IF fl.live.how = "reject" THEN FloridaOutcome("live", TRUE, <<>>)
       ELSE IF fl.live.how = "status" THEN FloridaOutcome("live", FALSE, <<>>)
       ELSE FloridaOutcome("live", FALSE, FloridaRows(fl.live.sheet, qty, limit))
  ELSE IF fl.devFile
  THEN IF ~fl.dev.found THEN FloridaOutcome("dev", TRUE, <<>>)
       ELSE FloridaOutcome("dev", FALSE, FloridaRows(fl.dev.sheet, qty, limit))
  ELSE IF ~fl.bundled.found THEN FloridaOutcome("bundled", FALSE, <<>>)
       ELSE FloridaOutcome("bundled", FALSE, FloridaRows(fl.bundled.sheet, qty, limit))

(***************************************************************************)
(* The stages after the providers (lines 537-572).                         *)
(***************************************************************************)
\* a chain filter that lets the rows without a chain through
ChainFilterKeepsChainless(rows, chainSet) ==
  IF chainSet = {} THEN rows
  ELSE SelectSeq(rows, LAMBDA r : r.chain = <<>> \/ r.chain \in chainSet)

\* lines 538-541
ChainFilter(rows, chainSet) ==
  IF chainSet = {} THEN rows
  ELSE SelectSeq(rows, LAMBDA r : r.chain # <<>> /\ r.chain \in chainSet)

\* lines 544-551
TextFilter(rows, field, filter) ==
  IF filter = <<>> THEN rows
  ELSE SelectSeq(rows, LAMBDA r : Includes(ToLower(r[field]), filter))

\* lines 554-556
keyFn(dedupe, r) ==
  IF dedupe = "chain" /\ r.chain # <<>> THEN r.chain
  ELSE IF r.pharmacy # <<>> THEN r.pharmacy
  ELSE <<"unknown">>

\* a < b on numbers: false whenever one side is NaN
Less(a, b) == a # NaN /\ b # NaN /\ a < b

\* lines 558-563: a Map keeps a key at the position of its first insertion
RECURSIVE Pick(_, _, _)
Pick(rows, dedupe, picked) ==
  IF rows = <<>> THEN picked
  ELSE LET r == Head(rows)
           k == keyFn(dedupe, r)
           at == {i \in 1..Len(picked) : picked[i].k = k}
       IN IF at = {}
          THEN Pick(Tail(rows), dedupe, Append(picked, [k |-> k, r |-> r]))
          ELSE LET i == CHOOSE j \in at : TRUE
               IN Pick(Tail(rows), dedupe,
                       IF Less(r.totalPrice, picked[i].r.totalPrice)
                       THEN [picked EXCEPT ![i].r = r] ELSE picked)

\* lines 553-566
Dedupe(rows, dedupe) ==
  IF dedupe \in {"chain", "pharmacy"}
  THEN LET picked == Pick(rows, dedupe, <<>>)
       IN [i \in 1..Len(picked) |-> picked[i].r]
  ELSE rows

\* line 571: a.totalPrice - b.totalPrice < 0; a NaN difference counts as 0
ComesBefore(a, b) == Less(a.totalPrice, b.totalPrice)

\* x goes behind everything that does not come after it
RECURSIVE Insert(_, _)
Insert(x, s) ==
  IF s = <<>> THEN <<x>>
  ELSE IF ComesBefore(x, Head(s)) THEN <<x>> \o s
  ELSE <<Head(s)>> \o Insert(x, Tail(s))

RECURSIVE StableSort(_)
StableSort(s) ==
  IF s = <<>> THEN <<>> ELSE Insert(s[Len(s)], StableSort(SubSeq(s, 1, Len(s) - 1)))

\* the comparator of line 571 orders the rows consistently unless a NaN total
\* is "equal" to two totals that differ
Consistent(rows) ==
  \/ \A i \in 1..Len(rows) : rows[i].totalPrice # NaN
  \/ \A i, j \in 1..Len(rows) :
       rows[i].totalPrice # NaN /\ rows[j].totalPrice # NaN
         => rows[i].totalPrice = rows[j].totalPrice

\* line 571: Array.prototype.sort is stable; with an inconsistent comparator the
\* order is implementation-defined, so every order is a possible outcome
SortOutcomes(rows) ==
  IF Consistent(rows) THEN {StableSort(rows)}
  ELSE {[i \in 1..Len(rows) |-> rows[p[i]]] : p \in Permutations(1..Len(rows))}

\* Math.min(a, b)
MinTotal(a, b) == IF a = NaN \/ b = NaN THEN NaN ELSE Min(a, b)

\* lines 578-584: a Map from chain to count and min, in order of first insertion;
\* Infinity is the min of no row yet
RECURSIVE Summarize(_, _)
Summarize(results, m) ==
  IF results = <<>> THEN m
  ELSE LET r == Head(results)
           at == {i \in 1..Len(m) : m[i].chain = r.chain}
       IN IF r.chain = <<>> THEN Summarize(Tail(results), m)
          ELSE IF at = {}
          THEN Summarize(Tail(results),
                         Append(m, [chain |-> r.chain, count |-> 1, min |-> r.totalPrice]))
          ELSE LET i == CHOOSE j \in at : TRUE
               IN Summarize(Tail(results),
                            [m EXCEPT ![i].count = @ + 1,
                                      ![i].min = MinTotal(@, r.totalPrice)])

\* lines 575-586: minTotal is Number(rec.min.toFixed(4))
groupSummary(results) ==
  LET m == Summarize(results, <<>>)
  IN [i \in 1..Len(m) |->
        [chain |-> m[i].chain, count |-> m[i].count, minTotal |-> Fixed4(m[i].min, 1, 1)]]

NoPipe == [stage |-> "off"]

\* no passcode in the environment, no cookie in the browser, nothing visited
NoDoor == [PASS |-> Absent, jar |-> Absent, last |-> <<>>]

(***************************************************************************)
(* Inputs.                                                                 *)
(***************************************************************************)
Zip85001 == <<"8", "5", "0", "0", "1">>
FwdHeaders == {Absent, <<"A">>, <<"A", "|goodrx">>}
DrugParams == {Absent, <<>>, <<" ">>, <<" ", "A">>}
ZipParams ==
  {Absent, <<>>, <<" ">>, Zip85001, <<" ">> \o Zip85001, <<"8", "5", "0", "0">>,
   <<"8", "5", "0", "0", "a">>, Zip85001 \o <<"1">>}
FlagParams == {"", "false"}
GoodRxParams == {"", "true", "false"}

(***************************************************************************)
(* State machine.                                                          *)
(***************************************************************************)
Ctx(r) ==
  [r |-> r, cache |-> cache, rl |-> rl, step |-> EmptyStep, gate |-> gate,
   ls |-> lastStored, used |-> used]

\* the handler invocation r (none for a new request) ran to c
Commit(c, r) ==
  /\ rl' = c.rl
  /\ cache' = c.cache
  /\ step' = c.step
  /\ gate' = c.gate
  /\ lastStored' = c.ls
  /\ reqs' = ((reqs (-) SetToBag(r)) (+)
              (IF c.r.phase = "done" THEN EmptyBag ELSE SetToBag({c.r})))
  /\ used' = c.used
  /\ UNCHANGED <<now, env, pipe, door>>

\* the call that settled in this step: which call of which handler, and how
Settled(r, how, data) ==
  <<[b |-> r.await[1].b, u |-> r.await[1].u, how |-> how, data |-> data,
     stage |-> r.stage, drug |-> r.drug]>>

\* a request arrives and its handler runs to its first suspension or its response
GET(fwd, drugP, zipP, pRx, pNadac, pGood, pFlorida) ==
  /\ Commit(Handle(Ctx(NoRequest), fwd, drugP, zipP, pRx, pNadac, pGood, pFlorida), {})
  /\ nreq' = nreq + 1

\* fetch() resolved with a 2xx status: the handler now awaits res.json()
FetchOk(r) ==
  /\ r.phase = "fetch"
  /\ Commit([Ctx(r) EXCEPT !.r.phase = "body"], {r})
  /\ UNCHANGED nreq

\* a non-2xx answer that is stored like a body
FetchNotOkCaching(r) ==
  /\ r.phase = "fetch"
  /\ Commit(Continue([Ctx(r) EXCEPT !.r.await = <<>>, !.r.phase = "run",
                         !.cache = cacheStore(@, r.await[1].u, r.await[1].b, NullBody,
                                              r.await[1].ttl),
                         !.step.settled = Settled(r, "status", NullBody)],
                     r.stage, NullBody), {r})
  /\ UNCHANGED nreq

\* fetch() resolved with a non-2xx status: fetchJSONCached returns null (line 101)
FetchNotOk(r) ==
  /\ r.phase = "fetch"
  /\ Commit(Continue([Ctx(r) EXCEPT !.r.await = <<>>, !.r.phase = "run",
                         !.step.settled = Settled(r, "status", NullBody)],
                     r.stage, NullBody), {r})
  /\ UNCHANGED nreq

\* fetch() rejected: network error, or the abort of fetchWithTimeout's timer
FetchRejects(r) ==
  /\ r.phase = "fetch"
  /\ Commit(Throw([Ctx(r) EXCEPT !.r.await = <<>>, !.r.phase = "run",
                      !.step.settled = Settled(r, "reject", NullBody)],
                  r.stage), {r})
  /\ UNCHANGED nreq

\* res.json() resolved: lines 102-104
BodyParsed(r, data) ==
  /\ r.phase = "body"
  /\ data \in Bodies(r.stage)
  /\ LET a == r.await[1]
         c == [Ctx(r) EXCEPT
                 !.r.await = <<>>, !.r.phase = "run",
                 !.cache = IF a.ttl > 0 THEN cacheStore(@, a.u, a.b, data, a.ttl) ELSE @,
                 !.step.put = IF a.ttl > 0
                              THEN <<[b |-> a.b, u |-> a.u, data |-> data]>> ELSE <<>>,
                 !.step.settled = Settled(r, "data", data),
                 !.ls = Put(@, <<a.b, a.u>>,
                            [data |-> data, until |-> Expiry(now + a.ttl)])]
     IN Commit(Continue(c, r.stage, data), {r})
  /\ UNCHANGED nreq

\* res.json() rejected: malformed body or a broken connection
BodyRejects(r) ==
  /\ r.phase = "body"
  /\ Commit(Throw([Ctx(r) EXCEPT !.r.await = <<>>, !.r.phase = "run",
                      !.step.settled = Settled(r, "malformed", NullBody)],
                  r.stage), {r})
  /\ UNCHANGED nreq

Tick ==
  /\ now < MaxTime
  /\ now' = now + 1
  /\ step' = EmptyStep
  /\ UNCHANGED <<env, rl, cache, reqs, nreq, gate, lastStored, pipe, door, used>>

AllBodies == UNION {Bodies(st) : st \in {"find1", "ndcs", "name", "nadac"}}

InitWith(envs) ==
  /\ now = 0
  /\ env \in envs
  /\ rl = <<>>
  /\ cache = <<>>
  /\ reqs = EmptyBag
  /\ nreq = 0
  /\ step = EmptyStep
  /\ gate = <<>>
  /\ lastStored = <<>>
  /\ pipe = NoPipe
  /\ door = NoDoor
  /\ used = <<>>

(***************************************************************************)
(* Spec: the rate limiters.  No GoodRx credential is configured and the    *)
(* requests switch the resolver and NADAC off, so a handler never suspends *)
(* and every request is one step; three client identities, two of which    *)
(* differ by the suffix the GoodRx throttle appends.                        *)
(***************************************************************************)
Init ==
  InitWith([RATE_MAX : 1..MaxRateCfg, GOODRX_RATE_MAX : 1..MaxRateCfg,
            GOODRX_API_KEY : {FALSE}])

Next ==
  \/ /\ nreq < GateReqs
     /\ \E fwd \in FwdHeaders, drugP \in {Absent, <<"A">>},
           zipP \in {Absent, <<"8", "5", "0", "0">>}, pGood \in GoodRxParams :
          GET(fwd, drugP, zipP, "false", "false", pGood, "")
  \/ Tick

Spec == Init /\ [][Next]_vars

(***************************************************************************)
(* SpecFetch: the providers and the cache.  A GoodRx credential is         *)
(* configured, the resolver is switched off, and the requests of one       *)
(* client overlap at their suspension points.                              *)
(***************************************************************************)
InitFetch ==
  InitWith({e \in [RATE_MAX : 1..MaxRateCfg, GOODRX_RATE_MAX : 1..MaxRateCfg,
                   GOODRX_API_KEY : {TRUE}] :
              e.RATE_MAX = MaxRateCfg \/ e.GOODRX_RATE_MAX = MaxRateCfg})

NextFetch ==
  \/ /\ nreq < FetchReqs
     /\ \E pNadac \in FlagParams, pGood \in FlagParams :
          GET(Absent, <<"A">>, Absent, "false", pNadac, pGood, "")
  \/ \E r \in BagToSet(reqs) : FetchOk(r)
  \/ \E r \in BagToSet(reqs) : FetchNotOk(r)
  \/ \E r \in BagToSet(reqs) : FetchRejects(r)
  \/ \E r \in BagToSet(reqs), data \in AllBodies : BodyParsed(r, data)
  \/ \E r \in BagToSet(reqs) : BodyRejects(r)
  \/ Tick

SpecFetch == InitFetch /\ [][NextFetch]_vars

(***************************************************************************)
(* SpecFetchLive: SpecFetch with the one progress guarantee the code has.  *)
(* fetchWithTimeout (lines 88-93) aborts fetch() after its timeout, so a   *)
(* call that waits for fetch() settles; the timer is cleared as soon as    *)
(* fetch() resolves (the finally of line 92), so nothing bounds the wait   *)
(* for the body.                                                           *)
(***************************************************************************)
FetchSettles ==
  \E r \in BagToSet(reqs) : FetchOk(r) \/ FetchNotOk(r) \/ FetchRejects(r)

SpecFetchLive == SpecFetch /\ WF_vars(FetchSettles)

(***************************************************************************)
(* The validation envelope: one client sends one request after the other,  *)
(* with every shape of the drug and zip parameters, to a deployment with a *)
(* GoodRx key; the resolver is switched off.                               *)
(***************************************************************************)
InitInput ==
  InitWith([RATE_MAX : {MaxRateCfg}, GOODRX_RATE_MAX : {MaxRateCfg},
            GOODRX_API_KEY : {TRUE}])

NextInput ==
  \/ /\ nreq < FetchReqs
     /\ reqs = EmptyBag
     /\ \E drugP \in DrugParams, zipP \in ZipParams,
           pNadac \in FlagParams, pGood \in FlagParams :
          GET(Absent, drugP, zipP, "false", pNadac, pGood, "")
  \/ \E r \in BagToSet(reqs) : FetchOk(r)
  \/ \E r \in BagToSet(reqs) : FetchNotOk(r)
  \/ \E r \in BagToSet(reqs) : FetchRejects(r)
  \/ \E r \in BagToSet(reqs), data \in AllBodies : BodyParsed(r, data)
  \/ \E r \in BagToSet(reqs) : BodyRejects(r)
  \/ Tick

SpecInput == InitInput /\ [][NextInput]_vars

(***************************************************************************)
(* The resolver envelope: one client sends one request after the other     *)
(* with the resolver and NADAC switched on and GoodRx switched off.        *)
(***************************************************************************)
InitResolve ==
  InitWith([RATE_MAX : {MaxRateCfg}, GOODRX_RATE_MAX : {MaxRateCfg},
            GOODRX_API_KEY : {FALSE}])

NextResolve ==
  \/ /\ nreq < FetchReqs
     /\ reqs = EmptyBag
     /\ GET(Absent, <<" ", "A">>, Absent, "", "", "false", "")
  \/ \E r \in BagToSet(reqs) : FetchOk(r)
  \/ \E r \in BagToSet(reqs) : FetchNotOk(r)
  \/ \E r \in BagToSet(reqs) : FetchRejects(r)
  \/ \E r \in BagToSet(reqs), data \in AllBodies : BodyParsed(r, data)
  \/ \E r \in BagToSet(reqs) : BodyRejects(r)
  \/ Tick

SpecResolve == InitResolve /\ [][NextResolve]_vars

(***************************************************************************)
(* SpecDemo: the demo fixture alone.  One client asks for the two fixture  *)
(* drugs, one request after the other, with NADAC and GoodRx switched off  *)
(* and the resolver on or off.  (qty and includeMock are read at lines 374 *)
(* and 377 and first used at lines 463 and 520.)                           *)
(***************************************************************************)
Zip99999 == <<"9", "9", "9", "9", "9">>

DemoQueries ==
  {[drug |-> Metformin, zip |-> Absent], [drug |-> Atorvastatin, zip |-> Zip99999]}

InitDemo ==
  InitWith([RATE_MAX : {MaxRateCfg}, GOODRX_RATE_MAX : {MaxRateCfg},
            GOODRX_API_KEY : {FALSE}])

NextDemo ==
  \/ /\ nreq < FetchReqs
     /\ reqs = EmptyBag
     /\ \E q \in DemoQueries, pRx \in FlagParams, pFlorida \in {"", "true"} :
          GET(Absent, q.drug, q.zip, pRx, "false", "false", pFlorida)
  \/ \E r \in BagToSet(reqs) : FetchOk(r)
  \/ \E r \in BagToSet(reqs) : FetchNotOk(r)
  \/ \E r \in BagToSet(reqs) : FetchRejects(r)
  \/ \E r \in BagToSet(reqs), data \in AllBodies : BodyParsed(r, data)
  \/ \E r \in BagToSet(reqs) : BodyRejects(r)
  \/ Tick

SpecDemo == InitDemo /\ [][NextDemo]_vars

(***************************************************************************)
(* SpecPipeline: the rows of one request, from the parameters to the       *)
(* results.  The provider results are inputs; the stages are the code of   *)
(* lines 374-375, of the row builders and of lines 519-572, applied in the *)
(* order of the handler.  (The handler itself stops at Baseline: these     *)
(* stages are checked as the functions they are.)                          *)
(***************************************************************************)
QtyParams ==
  {Absent, <<>>, <<"0">>, <<"-", "5">>, <<"9", "9", "9", "9">>, <<"2", ".", "5">>,
   <<"a", "b", "c">>, <<"7">>}
LimitParams ==
  {Absent, <<>>, <<"0">>, <<"1">>, <<"2", ".", "5">>, <<"9", "9">>, <<"a", "b", "c">>}

\* chains, form and strength: no filter, or one of them
FilterParams ==
  {[chains |-> {}, form |-> <<>>, strength |-> <<>>],
   [chains |-> {<<"cvs">>}, form |-> <<>>, strength |-> <<>>],
   [chains |-> {}, form |-> <<"t", "A", "b">>, strength |-> <<>>],
   [chains |-> {}, form |-> <<>>, strength |-> <<"2", "0">>]}

\* the drug (after validation and resolution) and the zip (after validation)
DrugAndZip ==
  {[drug |-> Atorvastatin, zip |-> <<>>], [drug |-> Atorvastatin, zip |-> Zip85018],
   [drug |-> <<"m", "e", "t">>, zip |-> <<>>]}

\* qty or limit is sent, or neither
PipeRequests ==
  {[qtyP |-> q, limitP |-> l, dedupe |-> d, filters |-> f, drug |-> n.drug,
    zip |-> n.zip] :
     q \in QtyParams, l \in {Absent}, d \in {"none", "chain", "pharmacy"},
     f \in FilterParams, n \in DrugAndZip}
  \cup
  {[qtyP |-> q, limitP |-> l, dedupe |-> d, filters |-> f, drug |-> n.drug,
    zip |-> n.zip] :
     q \in {Absent}, l \in LimitParams, d \in {"none", "chain", "pharmacy"},
     f \in FilterParams, n \in DrugAndZip}

\* what the upstreams answered: NADAC per-unit prices, GoodRx items, Florida sheet rows
NadacAnswers == {<<>>, <<12347>>, <<-Cents(150)>>, <<NaN>>}
GoodRxAnswers ==
  {<<>>,
   <<[price |-> 12347, total |-> <<>>, pharmacy |-> <<"CVS", "Pharmacy">>],
     [price |-> Cents(150), total |-> <<4512346>>, pharmacy |-> <<"Unknown">>]>>,
   <<[price |-> -Cents(200), total |-> <<>>, pharmacy |-> NoName]>>}
LiveSheet ==
  <<[price |-> Cents(1250), quantity |-> 30, pharmacy |-> <<"Walmart", "Pharmacy">>]>>
FileSheet == <<[price |-> -Cents(300), quantity |-> NaN, pharmacy |-> NoName]>>

\* the configuration of the regional export and the state of its three sources:
\* the live export answers with a sheet, answers with a non-2xx status, or is not
\* configured; the developer's file is configured and missing, or not configured;
\* the bundled file is there or not
Florida(template, how, devFile, bundled) ==
  [template |-> template, devFile |-> devFile,
   live |-> [how |-> how, sheet |-> LiveSheet],
   dev |-> [found |-> FALSE, sheet |-> FileSheet],
   bundled |-> [found |-> bundled, sheet |-> FileSheet]]

FloridaAnswers ==
  {Florida(TRUE, "ok", FALSE, TRUE), Florida(TRUE, "status", TRUE, TRUE),
   Florida(FALSE, "ok", TRUE, TRUE), Florida(FALSE, "ok", FALSE, TRUE),
   Florida(FALSE, "ok", FALSE, FALSE)}

\* earlier: the quantities of the requests that were served the same answers
NewPipe(req, up) ==
  [stage |-> "request", req |-> req, up |-> up, qty |-> 0, limit |-> 0,
   rows |-> <<>>, before |-> <<>>, results |-> <<>>, earlier |-> <<>>,
   datasets |-> <<>>, caveats |-> <<>>, florida |-> <<>>, fetched |-> <<>>,
   unsorted |-> <<>>, groupSummary |-> <<>>, response |-> <<>>]

InitPipeline ==
  /\ now = 0
  /\ env = [RATE_MAX |-> MaxRateCfg, GOODRX_RATE_MAX |-> MaxRateCfg, GOODRX_API_KEY |-> TRUE]
  /\ rl = <<>>
  /\ cache = <<>>
  /\ reqs = EmptyBag
  /\ nreq = 0
  /\ step = EmptyStep
  /\ gate = <<>>
  /\ lastStored = <<>>
  /\ door = NoDoor
  /\ used = <<>>
  /\ pipe \in {NewPipe(req, [nadac |-> n, goodrx |-> g, florida |-> f]) :
                 req \in PipeRequests, n \in NadacAnswers, g \in GoodRxAnswers,
                 f \in FloridaAnswers}

Stage(from, to, p) ==
  /\ pipe.stage = from
  /\ pipe' = [p EXCEPT !.stage = to]
  /\ UNCHANGED <<now, env, rl, cache, reqs, nreq, step, gate, lastStored, door, used>>

\* lines 374-375
PipeInputs ==
  Stage("request", "goodrx",
        [pipe EXCEPT !.qty = Clamp(pipe.req.qtyP, DefaultQty, 1, MaxQty),
                     !.limit = Clamp(pipe.req.limitP, DefaultLimit, 1, MaxLimit)])

\* pushes x when cond
PushIf(seq, cond, x) == IF cond THEN Append(seq, x) ELSE seq

\* lines 463-467
PipeGoodRx ==
  LET grxRows == GoodRxRows(pipe.up.goodrx, pipe.qty)
  IN Stage("goodrx", "nadac",
           [pipe EXCEPT
              !.rows = @ \o grxRows,
              !.datasets = PushIf(@, grxRows # <<>>, "GoodRx"),
              !.caveats = PushIf(@, grxRows # <<>>,
                            "GoodRx prices change frequently; do not store long-term.")])

\* lines 478-485
PipeNadac ==
  LET nadacRows == NadacRows(pipe.up.nadac, pipe.qty)
  IN Stage("nadac", "florida",
           [pipe EXCEPT
              !.rows = @ \o nadacRows,
              !.datasets = PushIf(@, nadacRows # <<>>, "NADAC (HealthData.gov)"),
              !.caveats = Append(@, IF nadacRows # <<>>
                                    THEN "NADAC is acquisition cost, not retail price."
                                    ELSE "No NADAC rows matched this query.")])

\* lines 502-516
PipeFlorida ==
  LET fl == fetchFloridaMyRxExcel(pipe.up.florida, pipe.qty, pipe.limit)
  IN Stage("florida", "mock",
           [pipe EXCEPT
              !.rows = @ \o fl.rows,
              !.florida = <<fl.source>>,
              !.datasets = PushIf(@, fl.rows # <<>>, "Florida MyFloridaRX"),
              !.caveats = Append(@,
                 IF fl.threw THEN "Florida MyFloridaRX fetch error."
                 ELSE IF fl.rows # <<>>
                 THEN "Florida-only dataset based on paid claims; prices change frequently."
                 ELSE "Florida MyFloridaRX returned no rows for this query.")])

\* a fixture block that runs after the filters and the dedupe instead of before
PipeMockWhileSorting ==
  \/ Stage("mock", "filters", pipe)
  \/ /\ \A i \in 1..Len(pipe.datasets) : pipe.datasets[i] # "Mock"
     /\ Stage("sort", "sort",
              [pipe EXCEPT
                 !.rows = @ \o MockRows(ToLower(pipe.req.drug), pipe.req.zip, pipe.qty),
                 !.datasets = Append(@, "Mock")])

\* lines 519-535
PipeMock ==
  Stage("mock", "filters",
        [pipe EXCEPT
           !.rows = @ \o MockRows(ToLower(pipe.req.drug), pipe.req.zip, pipe.qty),
           !.datasets = Append(@, "Mock")])

\* lines 391-392 and 537-551
PipeFilters ==
  LET formFilter == ToLower(pipe.req.filters.form)
      strengthFilter == ToLower(pipe.req.filters.strength)
  IN Stage("filters", "dedupe",
           [pipe EXCEPT
              !.fetched = pipe.rows,
              !.rows = TextFilter(TextFilter(ChainFilter(@, pipe.req.filters.chains),
                                             "form", formFilter),
                                  "strength", strengthFilter),
              !.caveats =
                 PushIf(PushIf(PushIf(@, pipe.req.filters.chains # {}, "Chain filter applied"),
                               formFilter # <<>>, "Form filter applied"),
                        strengthFilter # <<>>, "Strength filter applied")])

\* lines 553-566
PipeDedupe ==
  Stage("dedupe", "sort",
        [pipe EXCEPT !.before = pipe.rows, !.rows = Dedupe(@, pipe.req.dedupe),
                     !.caveats = PushIf(@, pipe.req.dedupe \in {"chain", "pharmacy"},
                                        "Deduped; kept the cheapest")])

\* lines 571-572
PipeSortLimit ==
  \E sorted \in SortOutcomes(pipe.rows) :
    Stage("sort", "summary",
          [pipe EXCEPT !.unsorted = pipe.rows, !.rows = sorted,
                       !.results = Slice(sorted, pipe.limit)])

\* lines 575-586
PipeSummary ==
  Stage("summary", "respond",
        [pipe EXCEPT !.groupSummary = groupSummary(pipe.results)])

\* lines 597-624: the success payload
PipeRespond ==
  Stage("respond", "done",
        [pipe EXCEPT !.response =
           <<[ok |-> TRUE, count |-> Len(pipe.results), results |-> pipe.results,
              groupSummary |-> pipe.groupSummary, datasets |-> pipe.datasets,
              caveats |-> pipe.caveats]>>])

\* The same client asks again, now for 7 units.  The NADAC URL (lines 149-157)
\* does not depend on qty, so within the TTL fetchJSONCached returns the stored
\* answer (line 98); the other upstreams are fetched again, and answer the same.
PipeAgain ==
  /\ pipe.req.qtyP = Absent
  /\ pipe.earlier = <<>>
  /\ Stage("done", "request",
           [NewPipe([pipe.req EXCEPT !.qtyP = <<"7">>], pipe.up)
              EXCEPT !.earlier = <<pipe.qty>>])

NextPipeline ==
  \/ PipeInputs
  \/ PipeGoodRx
  \/ PipeNadac
  \/ PipeFlorida
  \/ PipeMock
  \/ PipeFilters
  \/ PipeDedupe
  \/ PipeSortLimit
  \/ PipeSummary
  \/ PipeRespond
  \/ PipeAgain

SpecPipeline == InitPipeline /\ [][NextPipeline]_vars

(***************************************************************************)
(* The global gate and rateLimit.                                          *)
(***************************************************************************)
\* C1: of the requests one client key sends through the global gate inside one
\* window, exactly the first RATE_MAX are allowed, and request RATE_MAX + 1 is
\* denied with remaining 0 and the resetAt of the response before it.
C1_ExactlyFirstMaxAllowed ==
  \A key \in DOMAIN gate :
    LET g == gate[key]
    IN /\ g.allowed <=> g.k <= env.RATE_MAX
       /\ g.k = env.RATE_MAX + 1 => g.remaining = 0 /\ g.prev = <<g.resetAt>>

\* the window of a rateLimit call is open: a record exists and has not expired
WindowOpen(call) == call.pre # <<>> /\ now < call.pre[1].resetAt

\* the fixed-window rule that compares the count before it increments it
CompareThenIncrement(call) ==
  IF ~WindowOpen(call)
  THEN /\ call.res = [allowed |-> TRUE, remaining |-> call.max - 1,
                      resetAt |-> now + RATE_WINDOW_MS]
       /\ call.post = [count |-> 1, resetAt |-> now + RATE_WINDOW_MS]
  ELSE IF call.pre[1].count >= call.max
  THEN /\ call.res = [allowed |-> FALSE, remaining |-> 0,
                      resetAt |-> call.pre[1].resetAt]
       /\ call.post = call.pre[1]
  ELSE /\ call.res = [allowed |-> TRUE, remaining |-> call.max - (call.pre[1].count + 1),
                      resetAt |-> call.pre[1].resetAt]
       /\ call.post = [count |-> call.pre[1].count + 1, resetAt |-> call.pre[1].resetAt]

\* the fixed-window rule that increments the count and then compares it
IncrementThenCompare(call) ==
  IF ~WindowOpen(call)
  THEN call.res = [allowed |-> TRUE, remaining |-> call.max - 1,
                   resetAt |-> now + RATE_WINDOW_MS]
  ELSE LET n == call.pre[1].count + 1
       IN IF n >= call.max
          THEN call.res = [allowed |-> FALSE, remaining |-> 0,
                           resetAt |-> call.pre[1].resetAt]
          ELSE call.res = [allowed |-> TRUE, remaining |-> call.max - n,
                           resetAt |-> call.pre[1].resetAt]

\* C2 (as the code has it): every rateLimit call, of the gate and of the GoodRx
\* throttle, returns what the compare-then-increment rule returns: inside an
\* open window a call that finds count >= max is denied with remaining 0 and
\* the existing resetAt and leaves the record alone; any other call in the
\* window increments the count and is allowed with remaining = max - count.
C2_AgreesWithCompareThenIncrement ==
  \A i \in 1..Len(step.rlCalls) : CompareThenIncrement(step.rlCalls[i])

\* C2 (as the specification words it): every rateLimit call returns what the
\* increment-then-compare rule returns.
C2_AgreesWithIncrementThenCompare ==
  \A i \in 1..Len(step.rlCalls) : IncrementThenCompare(step.rlCalls[i])

\* C2 witness: a call in an open window that finds count = max - 1 and is allowed
C2_LastAllowedCall ==
  \E i \in 1..Len(step.rlCalls) :
    LET call == step.rlCalls[i]
    IN /\ WindowOpen(call)
       /\ call.pre[1].count = call.max - 1
       /\ call.res.allowed /\ call.res.remaining = 0

(***************************************************************************)
(* Input validation.                                                       *)
(***************************************************************************)
\* a query parameter that is missing, empty or made of whitespace only
Blank(p) == p = Absent \/ \A i \in 1..Len(p) : p[i] \in White

FiveDigits(z) == Len(z) = 5 /\ \A i \in 1..5 : z[i] \in Digits

\* the step answered the request it received with InputError
AnsweredInputError ==
  /\ step.get[1].outcome = "InputError"
  /\ step.resp # <<>>
  /\ step.resp[1].status = 400
  /\ ~step.resp[1].ok

\* C3: a request whose drug parameter is missing, empty or whitespace-only is
\* answered with InputError (status 400, ok = false) and no provider runs for
\* it: no provider is attempted, no throttle or cache is consulted and no
\* upstream fetch is issued.
C3_BlankDrugIsInputError ==
  (step.get # <<>> /\ Blank(step.get[1].drug)) =>
     /\ AnsweredInputError
     /\ step.resp[1].attempted = <<>>
     /\ step.resp[1].fetches = 0
     /\ step.rlCalls = <<>>
     /\ step.lookups = <<>>
     /\ step.fetch = <<>>
     /\ step.put = <<>>

\* C3 witness: a request with a whitespace-only drug was answered with status 400
C3_WhitespaceDrugRejected ==
  /\ step.get # <<>>
  /\ step.get[1].drug = <<" ">>
  /\ step.resp # <<>>
  /\ step.resp[1].status = 400

\* C4 (as the code has it): a request whose zip parameter, once trimmed, is not
\* empty and is not exactly five digits is answered with InputError whatever
\* the other parameters are; a zip that is empty or whitespace-only is treated
\* as absent, and a five-digit zip with surrounding whitespace is accepted.
C4_MalformedTrimmedZipIsInputError ==
  step.get # <<>> =>
    LET zipP == step.get[1].zip
    IN /\ (~Blank(zipP) /\ ~FiveDigits(Trim(zipP))) => AnsweredInputError
       /\ (~Blank(step.get[1].drug) /\ (Blank(zipP) \/ FiveDigits(Trim(zipP))))
            => step.get[1].outcome # "InputError"

\* C4 (as the specification words it): a request that carries a zip parameter
\* whose value is not exactly five digits is answered with InputError.
C4_NonFiveDigitZipIsInputError ==
  (step.get # <<>> /\ step.get[1].zip # Absent /\ ~FiveDigits(step.get[1].zip))
     => AnsweredInputError

\* C4 witness: a four-digit zip sent with a valid drug was answered with status 400
C4_ShortZipRejected ==
  /\ step.get # <<>>
  /\ ~Blank(step.get[1].drug)
  /\ step.get[1].zip = <<"8", "5", "0", "0">>
  /\ step.resp # <<>>
  /\ step.resp[1].status = 400

(***************************************************************************)
(* The gate's denial, and the status of a response.                        *)
(***************************************************************************)
\* C5: a step that answers with RateLimited (status 429) issues no upstream
\* fetch, reads and writes no cache entry, attempts no provider, consults no
\* limiter but the gate, and leaves every rate record, the client's GoodRx
\* throttle record included, as it was.
C5_DenialTouchesNoProvider ==
  [][(step'.resp # <<>> /\ step'.resp[1].status = 429) =>
       /\ cache' = cache
       /\ rl' = rl
       /\ reqs' = reqs
       /\ step'.lookups = <<>>
       /\ step'.fetch = <<>>
       /\ step'.put = <<>>
       /\ Len(step'.rlCalls) = 1
       /\ step'.resp[1].attempted = <<>>
       /\ step'.resp[1].fetches = 0]_vars

\* C5 witness: the gate denied a client that holds a GoodRx throttle record
\* while the cache held an entry
C5_DeniedWithStateToTouch ==
  /\ step.resp # <<>>
  /\ step.resp[1].status = 429
  /\ Has(rl, goodrxKey(step.rlCalls[1].key))
  /\ \E b \in DOMAIN cache : cache[b] # <<>>

\* C6: every response is InputError (400), RateLimited (429) or a success
\* (status 200, ok = true), whatever the enabled providers answered.
C6_ValidGatedRequestSucceeds ==
  (step.resp # <<>> /\ step.resp[1].status \notin {400, 429}) =>
     step.resp[1].status = 200 /\ step.resp[1].ok

(***************************************************************************)
(* The cache.                                                              *)
(***************************************************************************)
Awaiting(b, u) ==
  {r \in BagToSet(reqs) : r.await # <<>> /\ r.await[1].b = b /\ r.await[1].u = u}

\* C7: a call for a bucket and URL made within the TTL of the last stored
\* response returns that response and attempts no upstream call, a call made
\* while another call for the same bucket and URL is still in flight attempts
\* no second upstream call, and a call made after the TTL has elapsed attempts
\* an upstream call.
C7_OneUpstreamCallWithinTtl ==
  /\ \A i \in 1..Len(step.lookups) :
       LET L == step.lookups[i]
           K == <<L.b, L.u>>
       IN IF Has(lastStored, K) /\ now < lastStored[K].until
          THEN L.hit /\ L.data = lastStored[K].data
          ELSE ~L.hit /\ Contains(step.fetch, [b |-> L.b, u |-> L.u])
  /\ \A i \in 1..Len(step.fetch) :
       LET A == Awaiting(step.fetch[i].b, step.fetch[i].u)
       IN \A r \in A : A = {r} /\ CopiesIn(r, reqs) = 1

\* the lookups of a step answered from the cache as it stood before the step
LookupsHonest ==
  \A i \in 1..Len(step'.lookups) :
    LET L == step'.lookups[i]
        stored == Has(cache, L.b) /\ Has(cache[L.b], L.u)
    IN /\ L.hit <=> (stored /\ now < cache[L.b][L.u].expires)
       /\ L.hit => L.data = cache[L.b][L.u].data

\* every bucket and entry survives the step; an entry changes only when the step
\* parsed a successful upstream response for its bucket and URL
EntriesRetained ==
  \A b \in DOMAIN cache :
    /\ b \in DOMAIN cache'
    /\ \A u \in DOMAIN cache[b] :
         /\ u \in DOMAIN cache'[b]
         /\ cache'[b][u] # cache[b][u] =>
              /\ step'.settled # <<>>
              /\ step'.settled[1].b = b
              /\ step'.settled[1].u = u
              /\ step'.settled[1].how = "data"
              /\ step'.settled[1].data = cache'[b][u].data

\* C8: a lookup returns the stored value exactly while now < expires and
\* absent otherwise; no step removes an entry or a bucket, a stale entry
\* included, and an entry changes only when a successful upstream fetch for
\* its bucket and URL stores the new response.
C8_LookupHonoursExpiryAndKeepsEntries ==
  [][LookupsHonest /\ EntriesRetained]_vars

\* C8 witness: a lookup ignored a stale entry, and the entry is still stored
C8_StaleEntryIgnoredAndKept ==
  \E i \in 1..Len(step.lookups) :
    LET L == step.lookups[i]
    IN /\ ~L.hit
       /\ Has(cache, L.b) /\ Has(cache[L.b], L.u)
       /\ cache[L.b][L.u].expires <= now

(***************************************************************************)
(* Transparency.                                                           *)
(***************************************************************************)
\* C9: a request whose GoodRx call has settled without rows (GoodRx attempted,
\* the handler already past it) has at least one caveat recorded.
C9_GoodRxWithoutRowsLeavesCaveat ==
  \A r \in BagToSet(reqs) :
    (r.stage = "nadac" /\ Contains(r.attempted, "GoodRx") /\ r.grxRows = 0)
       => r.caveats # <<>>

\* C10: the response to a request that passed validation and the gate lists
\* the GoodRx descriptor exactly when GoodRx was attempted and returned rows,
\* and the NADAC descriptor exactly when NADAC was attempted and returned rows.
C10_DescriptorIffRows ==
  (step.resp # <<>> /\ step.resp[1].status \notin {400, 429}) =>
     LET resp == step.resp[1]
     IN /\ Contains(resp.datasets, "GoodRx")
             <=> (Contains(resp.attempted, "GoodRx") /\ resp.grxRows > 0)
        /\ Contains(resp.datasets, "NADAC (HealthData.gov)")
             <=> (Contains(resp.attempted, "NADAC") /\ resp.nadacRows > 0)

(***************************************************************************)
(* The GoodRx throttle and the missing credential.                         *)
(***************************************************************************)
ThrottleCaveat == "GoodRx calls throttled for this client to protect upstream limits."

\* the step ran the GoodRx throttle after the gate, and the throttle denied
ThrottleDenied == Len(step.rlCalls) = 2 /\ ~step.rlCalls[2].res.allowed

\* the throttled step skipped GoodRx: no cache lookup and no fetch for it, GoodRx
\* not attempted, the caveat recorded, and the handler went on to NADAC
ThrottledSkipsGoodRx ==
  ThrottleDenied =>
    /\ \A i \in 1..Len(step.lookups) : step.lookups[i].b # "goodrx"
    /\ \A i \in 1..Len(step.fetch) : step.fetch[i].b # "goodrx"
    /\ step.resp # <<>> =>
         /\ Contains(step.resp[1].noted, ThrottleCaveat)
         /\ ~Contains(step.resp[1].attempted, "GoodRx")
    /\ step.resp = <<>> =>
         \E r \in BagToSet(reqs) :
           /\ r.stage = "nadac" /\ Contains(r.attempted, "NADAC")
           /\ Contains(r.caveats, ThrottleCaveat)
           /\ ~Contains(r.attempted, "GoodRx")

\* C11: a request that the GoodRx throttle denies skips the GoodRx call (no
\* fetch, GoodRx not attempted), records the throttling caveat, runs the
\* remaining providers and is answered with a success response.
C11_ThrottledRequestStillSucceeds ==
  /\ ThrottledSkipsGoodRx
  /\ (step.resp # <<>> /\ Contains(step.resp[1].noted, ThrottleCaveat)) =>
        step.resp[1].status = 200 /\ step.resp[1].ok

\* the step ran GoodRx for a deployment without a credential: the throttle
\* allowed the call and fetchGoodRxPrices had no key to send
GoodRxWithoutKey ==
  /\ ~env.GOODRX_API_KEY
  /\ Len(step.rlCalls) = 2
  /\ step.rlCalls[2].res.allowed

\* without a credential GoodRx returns empty at once: no lookup, no fetch, no
\* rows, GoodRx attempted, and no caveat about it
NoKeyGoodRxIsSilent ==
  GoodRxWithoutKey =>
    /\ step.lookups = <<>>
    /\ step.fetch = <<>>
    /\ step.resp # <<>>
    /\ step.resp[1].fetches = 0
    /\ step.resp[1].grxRows = 0
    /\ Contains(step.resp[1].attempted, "GoodRx")
    /\ step.resp[1].noted = <<>>

\* C12: a request that enables GoodRx on a deployment without a credential
\* makes no upstream call and is answered ok = true with no GoodRx rows,
\* GoodRx in attempted and no caveat about a GoodRx failure.
C12_NoKeyGoodRxStillSucceeds ==
  /\ NoKeyGoodRxIsSilent
  /\ GoodRxWithoutKey => step.resp[1].status = 200 /\ step.resp[1].ok

(***************************************************************************)
(* Name resolution.                                                        *)
(***************************************************************************)
ResolverStages == {"find1", "find9", "ndcs", "name"}

\* which call a cache lookup belongs to
CallType(L) ==
  CASE L.b = "rxnorm_find" -> IF L.u.q = 1 THEN "find1" ELSE "find9"
    [] L.b = "rxnorm_ndcs" -> "ndcs"
    [] L.b = "rxnorm_name" -> "name"
    [] OTHER -> L.b

\* what the handler had in hand when it made lookup i of the step: the value of
\* the lookup before it (a hit), the call that settled in this step, or nothing
\* because the request has just passed the gate
Before(i) ==
  IF i > 1
  THEN [type |-> CallType(step.lookups[i - 1]), how |-> "data",
        data |-> step.lookups[i - 1].data]
  ELSE IF step.settled # <<>>
  THEN [type |-> step.settled[1].stage, how |-> step.settled[1].how,
        data |-> step.settled[1].data]
  ELSE [type |-> "start", how |-> "data", data |-> NullBody]

\* the free-text query of the step's request, trimmed and lower-cased
StepQuery ==
  IF step.settled # <<>> THEN step.settled[1].drug
  ELSE ToLower(Trim(step.get[1].drug))

Threw(e) == e.how \in {"reject", "malformed"}

\* the call the state machine makes after e: its type and the name it carries
\* (the resolver's identifier lookups carry no name); canon(n) is the form in
\* which a canonical name n reaches the providers
NextCallVerbatim(e) ==
  CASE e.type = "start" -> [type |-> "find1", name |-> StepQuery]
    [] Threw(e) -> [type |-> "nadac", name |-> StepQuery]
    [] e.type \in {"find1", "find9"} /\ e.data.kind = "ids" -> [type |-> "ndcs", name |-> <<>>]
    [] e.type = "find1" -> [type |-> "find9", name |-> StepQuery]
    [] e.type = "find9" -> [type |-> "nadac", name |-> StepQuery]
    [] e.type = "ndcs" -> [type |-> "name", name |-> <<>>]
    [] OTHER -> [type |-> "nadac",
                 name |-> IF e.data.kind = "name" THEN e.data.name ELSE StepQuery]

NextCall(e) ==
  IF e.type = "name" /\ ~Threw(e) /\ e.data.kind = "name"
  THEN [type |-> "nadac", name |-> ToLower(e.data.name)]
  ELSE NextCallVerbatim(e)

\* the step made a resolver move: it passed the gate or settled a resolver call
ResolverStep ==
  \/ step.get # <<>> /\ step.get[1].outcome = "pass"
  \/ step.settled # <<>> /\ step.settled[1].stage \in ResolverStages

\* every resolver result of the step is followed by a call
AlwaysContinues ==
  /\ ResolverStep => step.lookups # <<>>
  /\ \A i \in 1..Len(step.lookups) :
       (step.lookups[i].hit /\ CallType(step.lookups[i]) \in ResolverStages)
          => i < Len(step.lookups)

\* C13 (as the code has it): resolution follows Start -> exact search ->
\* Found | NotFound -> fuzzy search -> Found | Unresolved.  The fuzzy search is
\* made exactly when the exact search returned without an identifier, the
\* code-list lookup exactly after Found and the canonical-name lookup after
\* it, and after Found with a canonical name the provider is called with the
\* lower-cased canonical name; otherwise with the trimmed, lower-cased query.
C13_ResolverStateMachine ==
  /\ AlwaysContinues
  /\ \A i \in 1..Len(step.lookups) :
       LET L == step.lookups[i]
           want == NextCall(Before(i))
       IN /\ CallType(L) = want.type
          /\ want.name # <<>> => L.u.name = want.name

\* C13 (as the specification words it): the same state machine, with the
\* provider called with the canonical name itself after Found.
C13_ProvidersGetCanonicalName ==
  /\ AlwaysContinues
  /\ \A i \in 1..Len(step.lookups) :
       LET L == step.lookups[i]
           want == NextCallVerbatim(Before(i))
       IN /\ CallType(L) = want.type
          /\ want.name # <<>> => L.u.name = want.name

\* C13 witness: a request found by the fuzzy search, with a canonical name,
\* waits for NADAC, which was asked for the lower-cased canonical name
C13_FuzzyFoundReachesProvider ==
  \E r \in BagToSet(reqs) :
    /\ r.stage = "nadac"
    /\ r.search = 9
    /\ r.rxnorm # <<>> /\ r.rxnorm[1].name = <<"C">>
    /\ r.await[1].u.name = <<"c">>

\* resolution ended without an identifier, or one of its lookups threw
EndedUnresolved(e) ==
  \/ e.type \in ResolverStages /\ Threw(e)
  \/ e.type = "find9" /\ ~Threw(e) /\ e.data.kind # "ids"

\* C14: when resolution ends Unresolved or one of its lookups throws, the
\* handler goes on, the provider is called with the drug parameter exactly as
\* the client sent it, and the request runs to a success response.
C14_UnresolvedPassesQueryThrough ==
  /\ \A i \in 1..Len(step.lookups) :
       EndedUnresolved(Before(i)) =>
          /\ CallType(step.lookups[i]) = "nadac"
          /\ step.get # <<>> => step.lookups[i].u.name = step.get[1].drug
  /\ (step.settled # <<>> /\ EndedUnresolved(Before(1))) => step.lookups # <<>>
  /\ (step.resp # <<>> /\ step.resp[1].status \notin {400, 429}
        /\ (step.resp[1].resolution = <<>> \/ step.resp[1].resolution[1].rxcui = 0))
       => step.resp[1].status = 200

(***************************************************************************)
(* The row pipeline.                                                       *)
(***************************************************************************)
Done == pipe.stage = "done"

\* a <= b on numbers: false whenever one side is NaN
AtMost(a, b) == a # NaN /\ b # NaN /\ a <= b

ChainsOf(rows) == {rows[i].chain : i \in 1..Len(rows)} \ {<<>>}
WithChain(rows, c) == {i \in 1..Len(rows) : rows[i].chain = c}
Nameless(rows) == {i \in 1..Len(rows) : rows[i].chain = <<>> /\ rows[i].pharmacy = <<>>}

\* v is the least totalPrice of the rows at the positions I
LeastTotal(v, rows, I) ==
  /\ \E i \in I : rows[i].totalPrice = v
  /\ \A i \in I : AtMost(v, rows[i].totalPrice)

AllRows == pipe.rows \o pipe.before \o pipe.results

FromDataset(rows, dataset) == {i \in 1..Len(rows) : rows[i].dataset = dataset}

Exposable(v) == v # NaN /\ v >= 0 /\ v % 10 = 0

Fixture(row) == MOCK[CHOOSE k \in 1..Len(MOCK) : MOCK[k].pharmacy = row.pharmacy]

Abs(x) == IF x < 0 THEN -x ELSE x

\* |v - a * n / d| <= 1e-4, for a price v, without forming a * n (a, n >= 0, d > 0)
NearQuot(v, a, n, d) ==
  LET lo == (a % d) * n
      floor == (a \div d) * n + (lo \div d)
  IN v - floor <= 10 /\ v - floor >= (IF lo % d = 0 THEN -10 ELSE -9)

MockRowsBuilt == pipe.stage = "filters" /\ pipe.qty # NaN

Within(v, lo, hi) == v # NaN /\ Count(lo) <= v /\ v <= Count(hi)

ParamsRead == pipe.stage \notin {"off", "request"}

\* C20: whatever the qty and limit parameters are (absent, empty, zero,
\* negative, too large, fractional, not a number), the quantity the pipeline
\* uses is in [1, 5000], and is 30 without the parameter, and the row limit is
\* in [1, 50], and is 25 without the parameter.
C20_QtyAndLimitClamped ==
  ParamsRead =>
    /\ Within(pipe.qty, 1, MaxQty)
    /\ Within(pipe.limit, 1, MaxLimit)
    /\ OrEmpty(pipe.req.qtyP) = <<>> => pipe.qty = Count(DefaultQty)
    /\ OrEmpty(pipe.req.limitP) = <<>> => pipe.limit = Count(DefaultLimit)
(***************************************************************************)
(* The demo fixture, end to end.                                           *)
(***************************************************************************)
\* the step answered a request for this drug that passed validation and the
\* gate with NADAC and GoodRx switched off
AnsweredFixtureOnly(drug) ==
  /\ step.resp # <<>>
  /\ step.resp[1].status \notin {400, 429}
  /\ step.resp[1].query = drug
  /\ ~step.resp[1].includeNadac
  /\ ~step.resp[1].includeGoodRx

\* C21: the request drug=metformin, qty=60 with the fixture on and NADAC and
\* GoodRx off is answered ok = true, with the one Costco row (total 6.50) and
\* the Mock dataset as the only dataset listed.
C21_MetforminScenarioSucceeds ==
  AnsweredFixtureOnly(Metformin) =>
    /\ step.resp[1].status = 200 /\ step.resp[1].ok
    /\ Len(MockRows(Metformin, <<>>, Count(60))) = 1
    /\ MockRows(Metformin, <<>>, Count(60))[1].pharmacy = <<"Costco", "(Mock)">>
    /\ MockRows(Metformin, <<>>, Count(60))[1].totalPrice = Cents(650)
    /\ step.resp[1].attempted = <<>>

\* C22: with only the fixture enabled, the rows returned are the fixture rows
\* whose drug contains the query and whose coverage holds the zip; the request
\* drug=atorvastatin, zip=99999 is answered with exactly one row, the 20 mg
\* Walmart fixture.
C22_AtorvastatinByZipSucceeds ==
  (AnsweredFixtureOnly(Atorvastatin) /\ step.resp[1].zip = Zip99999) =>
    /\ step.resp[1].status = 200 /\ step.resp[1].ok
    /\ Len(MockFiltered(Atorvastatin, Zip99999)) = 1
    /\ MockFiltered(Atorvastatin, Zip99999)[1].pharmacy = <<"Walmart", "(Mock)">>
    /\ MockFiltered(Atorvastatin, Zip99999)[1].strength = <<"2", "0", " ", "m", "g">>
(***************************************************************************)
(* rateLimit under interleaving.                                           *)
(***************************************************************************)
CallsOn(calls, key) == {i \in 1..Len(calls) : calls[i].key = key}

\* what one rateLimit call must leave behind, given the record it found
CountedOnce(call) ==
  IF call.pre = <<>> \/ now >= call.pre[1].resetAt
  THEN call.res.allowed /\ call.post.count = 1
  ELSE IF call.res.allowed
  THEN call.post.count = call.pre[1].count + 1 /\ call.post.count <= call.max
  ELSE call.post = call.pre[1]

\* C23: with requests suspended and resumed in any order, every rateLimit call
\* reads the record the last call on its key left, and the record it leaves is
\* the one the next state holds (no increment is lost); an allowed call counts
\* exactly once and never lifts the count above its max; no record changes
\* without a call; and the gate allows a key at most RATE_MAX requests in a
\* window.
C23_RateLimitIsAtomic ==
  [][/\ \A key \in DOMAIN rl' :
          LET on == CallsOn(step'.rlCalls, key)
          IN /\ on = {} => Has(rl, key) /\ rl'[key] = rl[key]
             /\ \A i \in on :
                  LET call == step'.rlCalls[i]
                  IN /\ on = {i}
                     /\ call.pre = (IF Has(rl, key) THEN <<rl[key]>> ELSE <<>>)
                     /\ call.post = rl'[key]
                     /\ now' = now
                     /\ CountedOnce(call)
     /\ \A key \in DOMAIN gate' : gate'[key].allowed => gate'[key].k <= env.RATE_MAX
    ]_vars

\* a request passed the gate as the second of its window while the first
\* request of the same client was still waiting for an upstream
C23_CountedWhileAnotherWaits ==
  /\ step.get # <<>>
  /\ Len(step.rlCalls) >= 1
  /\ WindowOpen(step.rlCalls[1])
  /\ step.rlCalls[1].res.allowed
  /\ step.rlCalls[1].post.count = 2
  /\ BagCardinality(reqs) = 2
(***************************************************************************)
(* Cache writes.                                                           *)
(***************************************************************************)
TtlOf(b) ==
  CASE b = "nadac" -> CACHE_TTL_NADAC_MS
    [] b = "goodrx" -> CACHE_TTL_GOODRX_MS
    [] OTHER -> CACHE_TTL_RXNORM_MS

Stored(cch, b, u) == Has(cch, b) /\ Has(cch[b], u)

\* the entry for (b, u) was written in this step
Written(b, u) == ~Stored(cache, b, u) \/ cache'[b][u] # cache[b][u]

\* an entry is written only by the step that parsed the body of a 2xx answer to
\* the call for its bucket and URL, whole, with the bucket's ttl
WritesAreWholeBodies ==
  \A b \in DOMAIN cache' : \A u \in DOMAIN cache'[b] :
    Written(b, u) =>
      /\ step'.settled # <<>>
      /\ step'.settled[1].b = b /\ step'.settled[1].u = u
      /\ step'.settled[1].how = "data"
      /\ step'.settled[1].data \in Bodies(step'.settled[1].stage)
      /\ step'.put = <<[b |-> b, u |-> u, data |-> step'.settled[1].data]>>
      /\ TtlOf(b) > 0
      /\ cache'[b][u] = [data |-> step'.settled[1].data,
                         expires |-> Expiry(now + TtlOf(b))]

\* a call that failed (non-2xx status, rejected or aborted fetch, unparsable
\* body) wrote nothing: every entry is as it was and there is no new entry
FailuresWriteNothing ==
  (step'.settled # <<>> /\ step'.settled[1].how # "data") =>
    /\ step'.put = <<>>
    /\ \A b \in DOMAIN cache' : \A u \in DOMAIN cache'[b] :
         Stored(cache, b, u) /\ cache'[b][u] = cache[b][u]

\* every entry is the latest successful answer for its bucket and URL
EntriesAreAnswers ==
  \A b \in DOMAIN cache' : \A u \in DOMAIN cache'[b] :
    /\ Has(lastStored', <<b, u>>)
    /\ cache'[b][u].data = lastStored'[<<b, u>>].data
    /\ cache'[b][u].expires = lastStored'[<<b, u>>].until

\* C24: with calls overlapping, failing and timing out in any order, every
\* cache entry is the completely parsed body of a 2xx upstream answer, written
\* in one step with ttl > 0; a call that is aborted, rejected, answered with a
\* non-2xx status or whose body fails to parse writes nothing and leaves the
\* entry of its key as it was.
C24_OnlyWholeSuccessfulBodiesStored ==
  [][WritesAreWholeBodies /\ FailuresWriteNothing /\ EntriesAreAnswers]_vars

\* a call failed while the cache held an entry for its bucket and URL, stored by
\* an overlapping call
C24_FailedBesideStoredEntry ==
  /\ step.settled # <<>>
  /\ step.settled[1].how \in {"status", "reject", "malformed"}
  /\ Stored(cache, step.settled[1].b, step.settled[1].u)
(***************************************************************************)
(* Termination.                                                            *)
(***************************************************************************)
\* C25: every request that passed validation and the gate is answered: each of
\* its upstream calls settles, also when the upstream sends its headers and
\* never finishes the body, and the handler ends after the last of them.
C25_EveryRequestAnswered == (reqs # EmptyBag) ~> (reqs = EmptyBag)

(***************************************************************************)
(* The access gate: src/middleware.ts in front of every route, and the     *)
(* route /api/beta-login that the credential form posts to.  A pathname is *)
(* a sequence of pieces cut so that the prefixes and suffixes the code     *)
(* tests are whole pieces.                                                 *)
(***************************************************************************)
Secret == <<"s3cret">>
Guess == <<"guess">>
EmptyString == <<>>

LoginPath == <<"/api/beta-login">>
Routes == {<<"/">>, <<"/prices">>, <<"/api/prices">>, LoginPath}
Pathnames ==
  Routes \cup {<<"/api/health">>, <<"/_next", "/static/chunk", ".js">>,
               <<"/favicon", ".ico">>, <<"/logo", ".png">>}

startsWith(pathname, prefix) == Len(pathname) > 0 /\ pathname[1] = prefix

\* a JavaScript condition on a string or undefined
Truthy(s) == s # Absent /\ s # EmptyString

\* config.matcher: the middleware runs unless the path starts with _next or
\* holds a dot followed by one of the asset extensions
AssetSuffixes == {".png", ".jpg", ".jpeg", ".svg", ".ico", ".css", ".js", ".map"}
matcher(pathname) ==
  /\ ~startsWith(pathname, "/_next")
  /\ \A i \in 1..Len(pathname) : pathname[i] \notin AssetSuffixes

PassThrough == [status |-> 0, body |-> "next", location |-> "", setCookie |-> Absent]
CredentialForm == [status |-> 401, body |-> "form", location |-> "", setCookie |-> Absent]
Handled == [status |-> 200, body |-> "route", location |-> "", setCookie |-> Absent]
Redirect(to, cookie) ==
  [status |-> 302, body |-> "redirect", location |-> to, setCookie |-> cookie]

FreePrefixes == {"/_next", "/favicon", "/public", "/api/health"}

\* the gate lets a request through when either token is present at all
middlewareAnyToken(PASS, req) ==
  IF \E p \in FreePrefixes : startsWith(req.pathname, p) THEN PassThrough
  ELSE IF ~Truthy(PASS) THEN PassThrough
  ELSE IF req.cookie # Absent \/ req.header # Absent THEN PassThrough
  ELSE CredentialForm

middleware(PASS, req) ==
  IF \E p \in FreePrefixes : startsWith(req.pathname, p) THEN PassThrough
  ELSE IF ~Truthy(PASS) THEN PassThrough
  ELSE IF req.cookie = PASS \/ req.header = PASS THEN PassThrough
  ELSE CredentialForm

\* src/unnamed/part_000: the handler of POST /api/beta-login
POST(BETA_PASS, req) ==
  LET pass == IF Truthy(req.form) THEN req.form ELSE EmptyString
      ok == Truthy(BETA_PASS) /\ pass = BETA_PASS
  IN  IF ~ok THEN Redirect("/", Absent) ELSE Redirect("/prices", pass)

\* the server: the middleware where the matcher selects it, then the route
Serve(PASS, req) ==
  LET front == IF matcher(req.pathname) THEN middleware(PASS, req) ELSE PassThrough
  IN  IF front # PassThrough THEN front
      ELSE IF req.pathname = LoginPath /\ req.method = "POST" THEN POST(PASS, req)
      ELSE Handled

\* one request of the browser (its cookie jar) or of a client that sets its own
\* cookie and header; the browser keeps the cookie a response sets
Visit ==
  \E pathname \in Pathnames, method \in {"GET", "POST"}, cookie \in {door.jar, Guess},
     header \in {Absent, Secret, Guess}, form \in {Absent, Secret, Guess} :
    LET req == [pathname |-> pathname, method |-> method, cookie |-> cookie,
                header |-> header, form |-> form]
        res == Serve(door.PASS, req)
    IN  /\ door' = [door EXCEPT
                      !.jar = IF res.setCookie # Absent THEN res.setCookie ELSE @,
                      !.last = <<[req |-> req, res |-> res, jar |-> door.jar]>>]
        /\ UNCHANGED <<now, env, rl, cache, reqs, nreq, step, gate, lastStored, pipe, used>>

\* BETA_PASS is unset, empty or a passcode; the browser holds no cookie yet
InitAccess ==
  /\ now = 0
  /\ env = [RATE_MAX |-> MaxRateCfg, GOODRX_RATE_MAX |-> MaxRateCfg, GOODRX_API_KEY |-> FALSE]
  /\ rl = <<>>
  /\ cache = <<>>
  /\ reqs = EmptyBag
  /\ nreq = 0
  /\ step = EmptyStep
  /\ gate = <<>>
  /\ lastStored = <<>>
  /\ pipe = NoPipe
  /\ used = <<>>
  /\ door \in {[NoDoor EXCEPT !.PASS = p] : p \in {Absent, EmptyString, Secret}}

NextAccess == Visit

SpecAccess == InitAccess /\ [][NextAccess]_vars

(***************************************************************************)
(* The access gate: properties.                                            *)
(***************************************************************************)
Visits == {door.last[i] : i \in 1..Len(door.last)}

\* the paths the gate leaves open: static assets and the health check
OpenPath(pathname) ==
  \/ \E p \in {"/_next", "/favicon", "/public", "/api/health"} : startsWith(pathname, p)
  \/ \E i \in 1..Len(pathname) :
       pathname[i] \in {".png", ".jpg", ".jpeg", ".svg", ".ico", ".css", ".js", ".map"}

Authentic(v) == v.req.cookie = door.PASS \/ v.req.header = door.PASS

\* C26: with a passcode configured, a request to a route that is not an asset
\* or health path and that carries neither an mf_pass cookie nor an x-beta-pass
\* header equal to the passcode is answered 401 with the credential form and
\* reaches no route handler; with a matching cookie or header it reaches the
\* route.  No route of the application is an open path.
C26_GateRejectsWithoutToken ==
  /\ \A pathname \in Routes : ~OpenPath(pathname)
  /\ \A v \in Visits :
       Truthy(door.PASS) /\ ~OpenPath(v.req.pathname) =>
         IF Authentic(v)
         THEN v.res.body \in {"route", "redirect"}
         ELSE v.res.status = 401 /\ v.res.body = "form" /\ v.res.setCookie = Absent

\* a request for the price API with a wrong cookie and no header was answered
\* with the form
C26_WrongCookieGetsForm ==
  \E v \in Visits :
    /\ Truthy(door.PASS)
    /\ v.req.pathname = <<"/api/prices">>
    /\ v.req.cookie = Guess /\ v.req.header = Absent
    /\ v.res.status = 401

\* C27: a client that holds no session token and posts the correct secret to
\* /api/beta-login is issued the mf_pass cookie and redirected to the pricing
\* page, and its later requests pass the gate; a wrong secret, or a submission
\* when no passcode is configured, issues no cookie.
C27_CorrectSecretIssuesCookie ==
  \A v \in Visits :
    /\ ( /\ Truthy(door.PASS)
         /\ v.req.pathname = LoginPath /\ v.req.method = "POST"
         /\ v.req.cookie = Absent /\ v.req.header = Absent
         /\ v.req.form = door.PASS )
       => /\ v.res.status = 302 /\ v.res.location = "/prices"
          /\ v.res.setCookie = door.PASS
          /\ door.jar = door.PASS
    /\ ( /\ v.req.pathname = LoginPath /\ v.req.method = "POST"
         /\ (~Truthy(door.PASS) \/ v.req.form # door.PASS) )
       => v.res.setCookie = Absent /\ door.jar = v.jar

(***************************************************************************)
(* The rate window.                                                        *)
(***************************************************************************)
\* the record a call found is over: there was one, and its resetAt has come
Elapsed(call) == call.pre # <<>> /\ now >= call.pre[1].resetAt

\* what a call does to the window of its key
LazyReset(call) ==
  IF call.pre = <<>> \/ Elapsed(call)
  THEN /\ call.res.allowed
       /\ call.post = [count |-> 1, resetAt |-> now + RATE_WINDOW_MS]
  ELSE call.post.resetAt = call.pre[1].resetAt

\* C28: a window is reset lazily and only by a request.  The first request for
\* a key at a time now >= resetAt starts a fresh window with count 1, is
\* allowed and sets resetAt to now + RATE_WINDOW_MS; a request inside a window
\* leaves resetAt alone; a step without a call on a key (the clock advancing,
\* another key's request) leaves the key's record as it was and removes no
\* record; so resetAt of a key never decreases.
C28_WindowResetOnlyByRequest ==
  [][/\ DOMAIN rl \subseteq DOMAIN rl'
     /\ \A key \in DOMAIN rl' :
          LET on == CallsOn(step'.rlCalls, key)
          IN /\ on = {} => Has(rl, key) /\ rl'[key] = rl[key]
             /\ \A i \in on :
                  LET call == step'.rlCalls[i]
                  IN /\ call.pre = (IF Has(rl, key) THEN <<rl[key]>> ELSE <<>>)
                     /\ call.post = rl'[key]
                     /\ LazyReset(call)
             /\ Has(rl, key) => rl'[key].resetAt >= rl[key].resetAt
    ]_vars

\* a request found an elapsed window that had counted at least one request and
\* started the next one
C28_FreshWindowAfterElapsed ==
  /\ Len(step.rlCalls) >= 1
  /\ Elapsed(step.rlCalls[1])
  /\ step.rlCalls[1].pre[1].count >= 1
  /\ step.rlCalls[1].post.count = 1
  /\ step.rlCalls[1].post.resetAt > step.rlCalls[1].pre[1].resetAt

(***************************************************************************)
(* Calls per client and window.                                            *)
(***************************************************************************)
\* C29: in the current window of every rate record, the client whose GoodRx
\* throttle the record is has had the GoodRx provider called at most
\* GOODRX_RATE_MAX times, those calls have sent at most as many upstream
\* requests, and the client whose gate the record is has entered the provider
\* pipeline at most RATE_MAX times, whatever the requests and their toggles.
C29_CallsPerWindowBounded ==
  \A key \in DOMAIN used :
    /\ used[key].goodrx <= env.GOODRX_RATE_MAX
    /\ used[key].upstream <= used[key].goodrx
    /\ used[key].gate <= env.RATE_MAX

\* the throttle refused a request of a client whose window had sent
\* GOODRX_RATE_MAX upstream requests
C29_ThrottledAtTheLimit ==
  /\ ThrottleDenied
  /\ Has(used, step.rlCalls[2].key)
  /\ used[step.rlCalls[2].key].upstream = env.GOODRX_RATE_MAX

(***************************************************************************)
(* One record per client and limiter.                                      *)
(***************************************************************************)
\* the record a limiter finds under a key, if any
Observed(m, key) == IF Has(m, key) THEN <<m[key]>> ELSE <<>>

\* C30: the global record of a client, its GoodRx record and the records of
\* every other client are distinct entries of the map: a request of one client
\* changes neither the global record nor the GoodRx record that a client with
\* another identity string observes.
C30_RequestChangesOwnRecordsOnly ==
  [][step'.get # <<>> /\ step'.rlCalls # <<>> =>
       LET me == step'.rlCalls[1].key
       IN \A fwd \in FwdHeaders :
            LET other == getClientKey(fwd, Absent)
            IN other # me =>
                 /\ Observed(rl', other) = Observed(rl, other)
                 /\ Observed(rl', goodrxKey(other)) = Observed(rl, goodrxKey(other))
    ]_vars

(***************************************************************************)
(* Sort and limit.                                                         *)
(***************************************************************************)
TotalsOf(rows) == {rows[i].totalPrice : i \in 1..Len(rows)}
WithTotal(rows, v) == SelectSeq(rows, LAMBDA r : r.totalPrice = v)

\* sorted holds the rows of unsorted in ascending order of totalPrice, rows of
\* equal totalPrice in the order they have in unsorted
StablyAscending(sorted, unsorted) ==
  /\ Len(sorted) = Len(unsorted)
  /\ \A i \in 1..(Len(sorted) - 1) : AtMost(sorted[i].totalPrice, sorted[i + 1].totalPrice)
  /\ \A v \in TotalsOf(unsorted) : WithTotal(sorted, v) = WithTotal(unsorted, v)

Filtered == pipe.stage \in {"dedupe", "sort", "summary", "respond", "done"}

\* the row is in the chain allow-list if one is given, and its form and its
\* strength contain the filter given for them, letter case aside
PassesFilters(r, f) ==
  /\ f.chains # {} => r.chain # <<>> /\ r.chain \in f.chains
  /\ f.form # <<>> => Includes(ToLower(r.form), ToLower(f.form))
  /\ f.strength # <<>> => Includes(ToLower(r.strength), ToLower(f.strength))

NoFilter(f) == f.chains = {} /\ f.form = <<>> /\ f.strength = <<>>

Summarized == pipe.stage \in {"respond", "done"}

C34_BaselineIsLeastBenchmarkUnit ==
  (step.resp # <<>> /\ step.resp[1].status \notin {400, 429}) =>
     LET resp == step.resp[1]
     IN /\ resp.status = 200
        /\ resp.nadacBaseline # <<>>
        /\ (resp.nadacBaseline[1].unitMin = <<>>) <=> (resp.nadacRows = 0)

(***************************************************************************)
(* The order of the stages.                                                *)
(***************************************************************************)
StageOrder ==
  <<"request", "goodrx", "nadac", "florida", "mock", "filters", "dedupe", "sort",
    "summary", "respond", "done">>
Position(stage) == CHOOSE i \in 1..Len(StageOrder) : StageOrder[i] = stage
RowSet(rows) == {rows[i] : i \in 1..Len(rows)}

FloridaCaveats ==
  {"Florida-only dataset based on paid claims; prices change frequently.",
   "Florida MyFloridaRX returned no rows for this query.",
   "Florida MyFloridaRX fetch error."}

\* C36: a request with the regional export enabled is answered with a success
\* response for which the export was attempted from exactly one source, the
\* first configured of live URL, developer file and bundled file; when that
\* source fails the response has no Florida row and a Florida caveat.
C36_FloridaSourceFailureIsContained ==
  (step.resp # <<>> /\ step.resp[1].status \notin {400, 429}
      /\ step.resp[1].includeFlorida) =>
     LET resp == step.resp[1]
     IN /\ resp.status = 200
        /\ Contains(resp.attempted, "Florida MyFloridaRX")
        /\ \E i \in 1..Len(resp.caveats) : resp.caveats[i] \in FloridaCaveats

(***************************************************************************)
(* Rejected requests and the quota.                                        *)
(***************************************************************************)
\* C37: a step that answers with InputError consults no limiter and leaves
\* every rate record, every cache entry and the requests in flight as they
\* were; and a request that passes the gate is told the quota less the number
\* of requests that reached the gate in its window, whatever number of
\* requests was rejected as InputError before it.
C37_InputErrorConsumesNoQuota ==
  [][/\ (step'.get # <<>> /\ step'.get[1].outcome = "InputError") =>
           /\ rl' = rl
           /\ cache' = cache
           /\ reqs' = reqs
           /\ gate' = gate
           /\ used' = used
           /\ step'.rlCalls = <<>>
           /\ step'.lookups = <<>>
           /\ step'.put = <<>>
           /\ step'.resp # <<>>
           /\ step'.resp[1].status = 400
     /\ (step'.get # <<>> /\ step'.get[1].outcome = "pass") =>
           LET call == step'.rlCalls[1]
           IN /\ call.res.remaining = env.RATE_MAX - gate'[call.key].k
              /\ (step.get # <<>> /\ step.get[1].outcome = "InputError")
                    => call.pre = IF Has(rl, call.key) THEN <<rl[call.key]>> ELSE <<>>
    ]_vars

\* C37 witness: the first request was rejected as InputError and the second,
\* from the same client, passes the gate with the whole quota less one
C37_ValidAfterInvalidHasFullQuota ==
  /\ nreq = 2
  /\ step.get # <<>>
  /\ step.get[1].outcome = "pass"
  /\ step.rlCalls[1].pre = <<>>
  /\ step.rlCalls[1].res.remaining = env.RATE_MAX - 1

====
